---- MODULE Spec2Model ----
(***************************************************************************)
(* A model of the Atom node of dracory/omni (src/atom.go): one shared atom *)
(* with its id, type, property map and children slice, the Go heap objects *)
(* (maps, backing arrays) those fields refer to, and the caller code that  *)
(* holds references to maps and slices it passed in or got back.           *)
(***************************************************************************)
EXTENDS Integers, Sequences, FiniteSets, TLC

(***************************************************************************)
(* Bounds of the model                                                     *)
(***************************************************************************)
\* largest number of entries the children slice of the atom may reach
MaxChildren == 3
\* the same, when property and children operations run together
MaxTogether == 1
\* number of threads sharing the atom
NThreads == 2

(***************************************************************************)
(* Go values                                                               *)
(***************************************************************************)
\* the nil AtomInterface, the nil map and the slice without backing array
NilAtom == 0
NilMap == 0
NilArr == 0

\* references to heap-allocated maps and backing arrays
MapRefs == {1, 2, 3}
ArrRefs == {1, 2, 3}

\* the atoms that callers attach as children, with the id and type GetID and
\* GetType return for them: 1 and 2 share an id; 4 is a child of 3, so its
\* id "z" is the id of a grandchild only
Kids == {1, 2, 3}
KidID(c) == CASE c = 1 -> "x" [] c = 2 -> "x" [] c = 3 -> "y" [] c = 4 -> "z" [] OTHER -> "x"
KidType(c) == CASE c = 1 -> "a" [] c = 2 -> "b" [] c = 3 -> "a" [] OTHER -> "b"
\* what ChildrenGet returns for a child
KidChildren(c) == IF c = 3 THEN <<4>> ELSE <<>>
IDs == {"x", "y", "z"}
Types == {"a", "b"}

\* gob data, by what the decoder makes of it: undecodable bytes (ok = FALSE),
\* or the fields of the encoded struct; a child's bytes are undecodable
\* (BadChild) or decode to a new atom (5)
BadChild == 0
GobData(ok, i, t, hasProps, props, kids) ==
    [ok |-> ok, ID |-> i, Type |-> t, hasProps |-> hasProps, Properties |-> props, Children |-> kids]
GobInputs == {GobData(FALSE, "", "", FALSE, <<>>, <<>>),
              GobData(TRUE, "root", "t", FALSE, <<>>, <<>>),
              GobData(TRUE, "root", "t", TRUE, [k \in {"k2"} |-> "v1"], <<5>>),
              GobData(TRUE, "root", "t", TRUE, <<>>, <<BadChild>>)}
GobInput1 == {GobData(TRUE, "root", "t", TRUE, <<>>, <<BadChild>>)}

\* property keys and values used by callers
Keys == {"k1", "k2"}
Vals == {"", "v1"}
Key1 == {"k1"}
Val1 == {"v1"}

\* contents of the maps callers build before handing them to SetAll
InputMaps == {<<>>, [k \in {"k1"} |-> "v1"], [k \in {"k2"} |-> "v1"]}
InputMap1 == {[k \in {"k1"} |-> "v1"]}

\* contents of the lists callers build before handing them to ChildrenAdd / ChildrenSet
InputLists == {<<>>, <<1>>, <<3>>, <<NilAtom>>, <<1, 2>>, <<NilAtom, 2>>, <<3, NilAtom>>}
InputList1 == {<<1>>}

(***************************************************************************)
(* Go maps: map[string]string as a function on the keys present            *)
(***************************************************************************)
EmptyMap == <<>>
MapHas(m, k) == k \in DOMAIN m
MapGet(m, k) == IF k \in DOMAIN m THEN m[k] ELSE ""
MapPut(m, k, v) == [x \in (DOMAIN m) \cup {k} |-> IF x = k THEN v ELSE m[x]]
MapDelete(m, k) == [x \in (DOMAIN m) \ {k} |-> m[x]]

\* the reference a fresh allocation gets: one no root refers to (the
\* preferred one when it is free, else the least free one)
FreshRef(refs, roots, pref) ==
    IF pref \notin roots THEN pref
    ELSE CHOOSE r \in refs \ roots : \A q \in refs \ roots : r <= q
\* the heap after collection: only what the roots refer to stays
Collect(heap, roots) == [r \in (DOMAIN heap) \cap roots |-> heap[r]]

(***************************************************************************)
(* Go slices: a slice is a backing array and a length; the capacity is the *)
(* length of the backing array                                             *)
(***************************************************************************)
NilSlice == [arr |-> NilArr, len |-> 0]
SliceCap(heap, s) == IF s.arr = NilArr THEN 0 ELSE Len(heap[s.arr])
\* the elements s[0:len]
SliceElems(heap, s) == IF s.arr = NilArr THEN <<>> ELSE SubSeq(heap[s.arr], 1, s.len)
Pad(seq, n) == seq \o [i \in 1..(n - Len(seq)) |-> NilAtom]

\* append(s, elems...): in place when the capacity suffices, else into a new
\* backing array grown as the runtime's growslice does for small slices
GrowCap(oldCap, newLen) == IF newLen > 2 * oldCap THEN newLen ELSE 2 * oldCap

\* append(s, elems...): the slice returned (s) and the heap afterwards (h)
GoAppend(heap, s, elems, roots, pref) ==
    IF Len(elems) = 0 THEN [s |-> s, h |-> heap]
    ELSE IF s.len + Len(elems) <= SliceCap(heap, s)
         THEN [s |-> [arr |-> s.arr, len |-> s.len + Len(elems)],
               h |-> [heap EXCEPT ![s.arr] =
                        [i \in 1..Len(@) |->
                            IF i > s.len /\ i <= s.len + Len(elems)
                            THEN elems[i - s.len] ELSE @[i]]]]
         ELSE LET r == FreshRef(ArrRefs, roots, pref)
                  data == Pad(SliceElems(heap, s) \o elems,
                              GrowCap(SliceCap(heap, s), s.len + Len(elems)))
              IN [s |-> [arr |-> r, len |-> s.len + Len(elems)],
                  h |-> [x \in (DOMAIN heap) \cup {r} |-> IF x = r THEN data ELSE heap[x]]]

\* make([]AtomInterface, len(elems)) followed by copy(dst, elems)
MakeCopy(heap, elems, roots, pref) ==
    IF Len(elems) = 0 THEN [s |-> NilSlice, h |-> heap]
    ELSE LET r == FreshRef(ArrRefs, roots, pref)
         IN [s |-> [arr |-> r, len |-> Len(elems)],
             h |-> [x \in (DOMAIN heap) \cup {r} |-> IF x = r THEN elems ELSE heap[x]]]

\* a Go slice that is returned: nil or not, and its elements
EmptyList == [isNil |-> FALSE, list |-> <<>>]
\* append(r, elems...)
AppendList(r, elems) == [isNil |-> r.isNil /\ elems = <<>>, list |-> r.list \o elems]

RECURSIVE FilterNil(_)
\* the non-nil entries of a list, in order
FilterNil(seq) ==
    IF seq = <<>> THEN <<>>
    ELSE IF Head(seq) = NilAtom THEN FilterNil(Tail(seq))
         ELSE <<Head(seq)>> \o FilterNil(Tail(seq))

VARIABLES
    id,          \* a.id
    atomType,    \* a.atomType
    properties,  \* a.properties: a map reference or NilMap
    children,    \* a.children: a slice
    maps,        \* heap: map reference -> contents
    arrs,        \* heap: array reference -> elements (its length is the capacity)
    cm,          \* caller: the map the caller built (and may have passed to SetAll)
    got,         \* caller: the map returned by the last GetAll
    cl,          \* caller: the list the caller built
    gotl,        \* caller: the slice returned by the last ChildrenGet
    last,        \* the last call, its arguments and its result
    panicked,    \* a call panicked (nil dereference)
    mu,          \* a.mu: the writer and the readers holding the lock
    tpc,         \* per thread: where it is in its current call
    ti,          \* per thread: the index of its current call in its program
    tmp,         \* per thread: the slice header ChildAdd read
    tres,        \* per thread: what its last read returned
    input,       \* the argument a function of the package is applied to
    nodeMu,      \* per atom of the shared tree: mu, its writer and its readers
    nodeKids,    \* per atom of the shared tree: its children
    stack,       \* per thread: the calls it is in, the innermost last
    visits       \* per thread and atom: how often its call has entered the atom

vars == <<id, atomType, properties, children, maps, arrs, cm, got, cl, gotl, last, panicked,
          mu, tpc, ti, tmp, tres, input, nodeMu, nodeKids, stack, visits>>
threadVars == <<mu, tpc, ti, tmp, tres>>
\* a tree of atoms that threads share: its locks, its children lists and the calls in progress
treeVars == <<nodeMu, nodeKids, stack, visits>>

atomVars == <<id, atomType, properties, children>>

\* the threads that share the atom
Threads == 1..NThreads

\* no function of the package is being applied
NoInput == [kind |-> "none"]
\* no tree is shared
NoTree == nodeMu = <<>> /\ nodeKids = <<>> /\ stack = <<>> /\ visits = <<>>

Call(op, arg, ret) == [op |-> op, arg |-> arg, ret |-> ret]

(***************************************************************************)
(* What the read operations of the atom return in the current state        *)
(***************************************************************************)
\* Atom.Has, on a property store props in a heap
HasIn(props, heap, key) == IF props = NilMap THEN FALSE ELSE MapHas(heap[props], key)
Has(key) == HasIn(properties, maps, key)
\* Atom.Get
GetIn(props, heap, key) == IF props = NilMap THEN "" ELSE MapGet(heap[props], key)
Get(key) == GetIn(properties, maps, key)
\* what GetAll returns: nil, or a map with these contents
GetAllContent == IF properties = NilMap THEN [isNil |-> TRUE, m |-> EmptyMap]
                 ELSE [isNil |-> FALSE, m |-> maps[properties]]
\* Atom.ChildrenLength
ChildrenLength == children.len
\* the contents of the slice ChildrenGet returns
ChildrenGetContent == SliceElems(arrs, children)

(***************************************************************************)
(* NewAtom("t", WithID("root")): empty property map, children of length 0  *)
(***************************************************************************)
InitAtom ==
    /\ id = "root"
    /\ atomType = "t"
    /\ properties = 1
    /\ maps = [r \in {1} |-> EmptyMap]
    /\ children = NilSlice
    /\ arrs = <<>>
    /\ cm = NilMap
    /\ got = NilMap
    /\ cl = NilSlice
    /\ gotl = NilSlice
    /\ last = Call("NewAtom", <<>>, <<>>)
    /\ panicked = FALSE
    /\ mu = [w |-> {}, r |-> {}]
    /\ tpc = [t \in Threads |-> "done"]
    /\ ti = [t \in Threads |-> 1]
    /\ tmp = [t \in Threads |-> NilSlice]
    /\ tres = [t \in Threads |-> [val |-> "", list |-> <<>>]]

Init == InitAtom /\ input = NoInput /\ NoTree

(***************************************************************************)
(* Property operations                                                     *)
(***************************************************************************)
\* the map Set writes to: the atom's own, or a new one when it has none
SetTarget(props, roots) == IF props = NilMap THEN FreshRef(MapRefs, roots, 1) ELSE props

\* Set(key, value): the property store afterwards (r) and the heap (h)
SetResult(props, heap, roots, key, value) ==
    LET r == SetTarget(props, roots)
        old == IF props = NilMap THEN EmptyMap ELSE heap[props]
    IN [r |-> r,
        h |-> [x \in (DOMAIN heap) \cup {r} |->
                  IF x = r THEN MapPut(old, key, value) ELSE heap[x]]]

OpSet(key, value) ==
    /\ ~panicked
    /\ LET res == SetResult(properties, maps, {cm, got}, key, value)
       IN /\ properties' = res.r
          /\ maps' = Collect(res.h, {res.r, cm, got})
    /\ last' = Call("Set", <<key, value>>, <<>>)
    /\ UNCHANGED <<id, atomType, children, arrs, cm, got, cl, gotl, panicked>>
    /\ UNCHANGED <<threadVars, input, treeVars>>

OpGet(key) ==
    /\ ~panicked
    /\ last' = Call("Get", <<key>>, Get(key))
    /\ UNCHANGED <<atomVars, maps, arrs, cm, got, cl, gotl, panicked>>
    /\ UNCHANGED <<threadVars, input, treeVars>>

OpHas(key) ==
    /\ ~panicked
    /\ last' = Call("Has", <<key>>, Has(key))
    /\ UNCHANGED <<atomVars, maps, arrs, cm, got, cl, gotl, panicked>>
    /\ UNCHANGED <<threadVars, input, treeVars>>

\* delete(a.properties, key): a no-op on the nil map
RemoveFrom_kept(m, key) == m
RemoveFrom(m, key) == MapDelete(m, key)

OpRemove(key) ==
    /\ ~panicked
    /\ maps' = IF properties = NilMap THEN maps
               ELSE [maps EXCEPT ![properties] = RemoveFrom(@, key)]
    /\ last' = Call("Remove", <<key>>, <<>>)
    /\ UNCHANGED <<atomVars, arrs, cm, got, cl, gotl, panicked>>
    /\ UNCHANGED <<threadVars, input, treeVars>>

\* the map GetAll hands out: nil for a nil store, else a new map
GetAllRef_alias(props) == props
GetAllRef(props) == IF props = NilMap THEN NilMap ELSE FreshRef(MapRefs, {props, cm}, 3)

OpGetAll ==
    /\ ~panicked
    /\ LET r == GetAllRef(properties)
       IN /\ got' = r
          /\ maps' = IF r = NilMap THEN Collect(maps, {properties, cm})
                     ELSE Collect([x \in (DOMAIN maps) \cup {r} |->
                                      IF x = r THEN maps[properties] ELSE maps[x]],
                                  {properties, cm, r})
    /\ last' = Call("GetAll", <<>>, <<>>)
    /\ UNCHANGED <<atomVars, arrs, cm, cl, gotl, panicked>>
    /\ UNCHANGED <<threadVars, input, treeVars>>

\* SetAll(m): the map the atom holds afterwards (r) and the heap (h)
SetAllResult_copy(heap, m, roots) ==
    IF m = NilMap THEN [r |-> NilMap, h |-> heap]
    ELSE LET r == FreshRef(MapRefs, roots, 1)
         IN [r |-> r, h |-> [x \in (DOMAIN heap) \cup {r} |-> IF x = r THEN heap[m] ELSE heap[x]]]
SetAllResult(heap, m, roots) == [r |-> m, h |-> heap]

\* SetAll(m) with m the caller's own map ("cm"), the map the caller got
\* from GetAll ("got"), which from then on is the map given to SetAll, or nil
OpSetAll(which) ==
    /\ ~panicked
    /\ LET m == CASE which = "cm" -> cm [] which = "got" -> got [] OTHER -> NilMap
           res == SetAllResult(maps, m, {cm, got})
       IN /\ properties' = res.r
          /\ cm' = IF which = "got" THEN got ELSE cm
          /\ got' = IF which = "got" THEN NilMap ELSE got
          /\ maps' = Collect(res.h, {properties', cm', got'})
    /\ last' = Call("SetAll", <<which>>, <<>>)
    /\ UNCHANGED <<id, atomType, children, arrs, cl, gotl, panicked>>
    /\ UNCHANGED <<threadVars, input, treeVars>>

(***************************************************************************)
(* Caller code working on the maps it holds                                *)
(***************************************************************************)
\* m := map[string]string{...}
CallerNewMap(content) ==
    /\ ~panicked
    /\ LET r == FreshRef(MapRefs, {properties, got}, 2)
       IN /\ cm' = r
          /\ maps' = Collect([x \in (DOMAIN maps) \cup {r} |->
                                 IF x = r THEN content ELSE maps[x]],
                             {properties, got, r})
    /\ last' = Call("CallerNewMap", <<content>>, <<>>)
    /\ UNCHANGED <<atomVars, arrs, got, cl, gotl, panicked>>
    /\ UNCHANGED <<threadVars, input, treeVars>>

\* m[key] = value on a map variable of the caller
CallerMapWrite(which, key, value) ==
    /\ ~panicked
    /\ LET m == IF which = "cm" THEN cm ELSE got
       IN /\ m # NilMap
          /\ maps' = [maps EXCEPT ![m] = MapPut(@, key, value)]
    /\ last' = Call("CallerMapWrite", <<which, key, value>>, <<>>)
    /\ UNCHANGED <<atomVars, arrs, cm, got, cl, gotl, panicked>>
    /\ UNCHANGED <<threadVars, input, treeVars>>

\* delete(m, key) on a map variable of the caller
CallerMapDelete(which, key) ==
    /\ ~panicked
    /\ LET m == IF which = "cm" THEN cm ELSE got
       IN /\ m # NilMap
          /\ maps' = [maps EXCEPT ![m] = MapDelete(@, key)]
    /\ last' = Call("CallerMapDelete", <<which, key>>, <<>>)
    /\ UNCHANGED <<atomVars, arrs, cm, got, cl, gotl, panicked>>
    /\ UNCHANGED <<threadVars, input, treeVars>>

(***************************************************************************)
(* Children operations                                                     *)
(***************************************************************************)
\* the caller's slice an operation is called with
ArgList(which) == CASE which = "cl" -> cl [] which = "gotl" -> gotl [] OTHER -> NilSlice

\* what ChildAdd appends for a child
ChildAddElems_unchecked(child) == <<child>>
ChildAddElems(child) == IF child = NilAtom THEN <<>> ELSE <<child>>

OpChildAdd(child) ==
    /\ ~panicked
    /\ children.len + 1 <= MaxChildren
    /\ LET r == GoAppend(arrs, children, ChildAddElems(child), {cl.arr, gotl.arr}, 1)
       IN /\ children' = r.s
          /\ arrs' = Collect(r.h, {r.s.arr, cl.arr, gotl.arr})
    /\ last' = Call("ChildAdd", <<child>>, <<>>)
    /\ UNCHANGED <<id, atomType, properties, maps, cm, got, cl, gotl, panicked>>
    /\ UNCHANGED <<threadVars, input, treeVars>>

\* what ChildrenAdd appends for a list
ChildrenAddElems(list) == list

OpChildrenAdd(which) ==
    /\ ~panicked
    /\ children.len + ArgList(which).len <= MaxChildren
    /\ LET elems == ChildrenAddElems(SliceElems(arrs, ArgList(which)))
           r == GoAppend(arrs, children, elems, {cl.arr, gotl.arr}, 1)
       IN /\ children' = r.s
          /\ arrs' = Collect(r.h, {r.s.arr, cl.arr, gotl.arr})
    /\ last' = Call("ChildrenAdd", <<which>>, <<>>)
    /\ UNCHANGED <<id, atomType, properties, maps, cm, got, cl, gotl, panicked>>
    /\ UNCHANGED <<threadVars, input, treeVars>>

\* the loop of ChildDeleteByID stops at the first child it cannot ask for
\* its id (nil) or whose id matches; 0 when it runs to the end
DeleteStop(elems, cid) ==
    IF \E i \in 1..Len(elems) : elems[i] = NilAtom \/ KidID(elems[i]) = cid
    THEN CHOOSE i \in 1..Len(elems) :
            /\ elems[i] = NilAtom \/ KidID(elems[i]) = cid
            /\ \A j \in 1..(i - 1) : elems[j] # NilAtom /\ KidID(elems[j]) # cid
    ELSE 0

OpChildDeleteByID(cid) ==
    /\ ~panicked
    /\ LET elems == SliceElems(arrs, children)
           i == DeleteStop(elems, cid)
       IN IF i = 0
          THEN /\ UNCHANGED <<children, arrs, panicked>>
          ELSE IF elems[i] = NilAtom
               THEN /\ panicked' = TRUE
                    /\ UNCHANGED <<children, arrs>>
               ELSE LET r == GoAppend(arrs, [arr |-> children.arr, len |-> i - 1],
                                    SubSeq(elems, i + 1, Len(elems)), {cl.arr, gotl.arr}, 1)
                    IN /\ children' = r.s
                       /\ arrs' = r.h
                       /\ UNCHANGED panicked
    /\ last' = Call("ChildDeleteByID", <<cid>>, <<>>)
    /\ UNCHANGED <<id, atomType, properties, maps, cm, got, cl, gotl>>
    /\ UNCHANGED <<threadVars, input, treeVars>>

\* the slice ChildrenGet hands out
ChildrenGetResult_alias(heap, s, roots) == [s |-> s, h |-> heap]
ChildrenGetResult(heap, s, roots) == MakeCopy(heap, SliceElems(heap, s), roots, 3)

OpChildrenGet ==
    /\ ~panicked
    /\ LET r == ChildrenGetResult(arrs, children, {children.arr, cl.arr})
       IN /\ gotl' = r.s
          /\ arrs' = Collect(r.h, {children.arr, cl.arr, r.s.arr})
    /\ last' = Call("ChildrenGet", <<>>, <<>>)
    /\ UNCHANGED <<atomVars, maps, cm, got, cl, panicked>>
    /\ UNCHANGED <<threadVars, input, treeVars>>

OpChildrenLength ==
    /\ ~panicked
    /\ last' = Call("ChildrenLength", <<>>, ChildrenLength)
    /\ UNCHANGED <<atomVars, maps, arrs, cm, got, cl, gotl, panicked>>
    /\ UNCHANGED <<threadVars, input, treeVars>>

\* the entries ChildrenSet keeps of a list
ValidChildren(list) == FilterNil(list)

\* the slice the atom holds after ChildrenSet(list)
ChildrenSetResult_alias(heap, list, roots) == [s |-> list, h |-> heap]
ChildrenSetResult(heap, list, roots) == MakeCopy(heap, ValidChildren(SliceElems(heap, list)), roots, 1)

OpChildrenSet(which) ==
    /\ ~panicked
    /\ LET r == ChildrenSetResult(arrs, ArgList(which), {cl.arr, gotl.arr})
       IN /\ children' = r.s
          /\ arrs' = Collect(r.h, {r.s.arr, cl.arr, gotl.arr})
    /\ last' = Call("ChildrenSet", <<which>>, <<>>)
    /\ UNCHANGED <<id, atomType, properties, maps, cm, got, cl, gotl, panicked>>
    /\ UNCHANGED <<threadVars, input, treeVars>>

(***************************************************************************)
(* Caller code working on the slices it holds                              *)
(***************************************************************************)
\* list := []AtomInterface{...}
CallerNewList(content) ==
    /\ ~panicked
    /\ LET r == MakeCopy(arrs, content, {children.arr, gotl.arr}, 2)
       IN /\ cl' = r.s
          /\ arrs' = Collect(r.h, {children.arr, gotl.arr, r.s.arr})
    /\ last' = Call("CallerNewList", <<content>>, <<>>)
    /\ UNCHANGED <<atomVars, maps, cm, got, gotl, panicked>>
    /\ UNCHANGED <<threadVars, input, treeVars>>

\* list[i] = child on a slice variable of the caller
CallerListWrite(which, i, child) ==
    /\ ~panicked
    /\ LET s == ArgList(which)
       IN /\ i <= s.len
          /\ arrs' = [arrs EXCEPT ![s.arr][i] = child]
    /\ last' = Call("CallerListWrite", <<which, i, child>>, <<>>)
    /\ UNCHANGED <<atomVars, maps, cm, got, cl, gotl, panicked>>
    /\ UNCHANGED <<threadVars, input, treeVars>>

(***************************************************************************)
(* Reads of the children                                                   *)
(***************************************************************************)
\* the children of the children of a list, in order
RECURSIVE GrandChildren(_)
GrandChildren(seq) ==
    IF seq = <<>> THEN <<>>
    ELSE (IF Head(seq) = NilAtom THEN <<>> ELSE KidChildren(Head(seq))) \o GrandChildren(Tail(seq))

\* Atom.ChildFindByID: the first non-nil child with that id, else nil
ChildFindByID_deep(cid) ==
    LET elems == SliceElems(arrs, children) \o GrandChildren(SliceElems(arrs, children))
        hits == {i \in 1..Len(elems) : elems[i] # NilAtom /\ KidID(elems[i]) = cid}
    IN IF hits = {} THEN NilAtom
       ELSE elems[CHOOSE i \in hits : \A j \in hits : i <= j]
ChildFindByID(cid) ==
    LET elems == SliceElems(arrs, children)
        hits == {i \in 1..Len(elems) : elems[i] # NilAtom /\ KidID(elems[i]) = cid}
    IN IF hits = {} THEN NilAtom
       ELSE elems[CHOOSE i \in hits : \A j \in hits : i <= j]

RECURSIVE FilterType(_, _)
FilterType(seq, t) ==
    IF seq = <<>> THEN <<>>
    ELSE IF Head(seq) # NilAtom /\ KidType(Head(seq)) = t
         THEN <<Head(seq)>> \o FilterType(Tail(seq), t)
         ELSE FilterType(Tail(seq), t)

\* Atom.ChildrenFindByType: the non-nil children of that type, in order
ChildrenFindByType_deep(t) ==
    FilterType(SliceElems(arrs, children) \o GrandChildren(SliceElems(arrs, children)), t)
ChildrenFindByType(t) == FilterType(SliceElems(arrs, children), t)
\* the slice it returns: []AtomInterface{} without children, else what was
\* appended to make([]AtomInterface, 0)
ChildrenFindByTypeResult(t) ==
    IF ChildrenLength = 0 THEN EmptyList ELSE AppendList(EmptyList, ChildrenFindByType(t))

OpChildFindByID(cid) ==
    /\ ~panicked
    /\ last' = Call("ChildFindByID", <<cid>>, ChildFindByID(cid))
    /\ UNCHANGED <<atomVars, maps, arrs, cm, got, cl, gotl, panicked>>
    /\ UNCHANGED <<threadVars, input, treeVars>>

OpChildrenFindByType(t) ==
    /\ ~panicked
    /\ last' = Call("ChildrenFindByType", <<t>>, ChildrenFindByTypeResult(t))
    /\ UNCHANGED <<atomVars, maps, arrs, cm, got, cl, gotl, panicked>>
    /\ UNCHANGED <<threadVars, input, treeVars>>

(***************************************************************************)
(* FromGob / GobDecode on the atom                                         *)
(***************************************************************************)
\* a.children after the decoding loop: the children decoded before the first
\* undecodable one, nil from there on
DecodedChildren(kids) ==
    [i \in 1..Len(kids) |->
        IF \A j \in 1..i : kids[j] # BadChild THEN kids[i] ELSE NilAtom]

OpFromGob(data) ==
    /\ ~panicked
    /\ Len(data.Children) <= MaxTogether
    /\ IF ~data.ok
       THEN /\ UNCHANGED <<atomVars, maps, arrs>>
            /\ last' = Call("FromGob", <<>>, "error")
       ELSE /\ id' = data.ID
            /\ atomType' = data.Type
            /\ LET r == IF data.hasProps THEN FreshRef(MapRefs, {cm, got}, 1) ELSE NilMap
               IN /\ properties' = r
                  /\ maps' = IF r = NilMap THEN Collect(maps, {cm, got})
                             ELSE Collect([x \in (DOMAIN maps) \cup {r} |->
                                              IF x = r THEN data.Properties ELSE maps[x]],
                                          {r, cm, got})
            /\ LET c == MakeCopy(arrs, DecodedChildren(data.Children), {cl.arr, gotl.arr}, 1)
               IN /\ children' = c.s
                  /\ arrs' = Collect(c.h, {c.s.arr, cl.arr, gotl.arr})
            /\ last' = Call("FromGob", <<>>,
                            IF \E j \in 1..Len(data.Children) : data.Children[j] = BadChild
                            THEN "error" ELSE "nil")
    /\ UNCHANGED <<cm, got, cl, gotl, panicked>>
    /\ UNCHANGED <<threadVars, input, treeVars>>


NextProps ==
    \/ \E k \in Keys, v \in Vals : OpSet(k, v)
    \/ \E k \in Keys : OpGet(k)
    \/ \E k \in Keys : OpHas(k)
    \/ \E k \in Keys : OpRemove(k)
    \/ OpGetAll
    \/ \E w \in {"cm", "got", "nil"} : OpSetAll(w)
    \/ \E c \in InputMaps : CallerNewMap(c)
    \/ \E w \in {"cm", "got"}, k \in Keys, v \in Val1 : CallerMapWrite(w, k, v)
    \/ \E w \in {"cm", "got"}, k \in Keys : CallerMapDelete(w, k)
    \/ \E d \in GobInputs : OpFromGob(d)

SpecProps == Init /\ [][NextProps]_vars

NextChildren ==
    \/ \E c \in Kids \cup {NilAtom} : OpChildAdd(c)
    \/ \E w \in {"cl", "nil"} : OpChildrenAdd(w)
    \/ \E i \in IDs : OpChildDeleteByID(i)
    \/ \E i \in IDs : OpChildFindByID(i)
    \/ \E t \in Types : OpChildrenFindByType(t)
    \/ OpChildrenLength
    \/ \E w \in {"cl", "nil"} : OpChildrenSet(w)
    \/ \E c \in InputLists : CallerNewList(c)
    \/ \E i \in {1}, c \in {2} : CallerListWrite("cl", i, c)

SpecChildren == Init /\ [][NextChildren]_vars

(***************************************************************************)
(* All operations together, on the smallest inputs                         *)
(***************************************************************************)
Next ==
    \/ \E k \in Key1, v \in Val1 : OpSet(k, v)
    \/ \E k \in Key1 : OpGet(k)
    \/ \E k \in Key1 : OpRemove(k)
    \/ OpGetAll
    \/ \E w \in {"cm", "got", "nil"} : OpSetAll(w)
    \/ \E c \in InputMap1 : CallerNewMap(c)
    \/ \E w \in {"cm", "got"}, k \in Key1, v \in Val1 : CallerMapWrite(w, k, v)
    \/ \E w \in {"cm", "got"}, k \in Key1 : CallerMapDelete(w, k)
    \/ \E c \in {1, NilAtom} : children.len < MaxTogether /\ OpChildAdd(c)
    \/ \E w \in {"cl", "gotl", "nil"} :
          children.len + ArgList(w).len <= MaxTogether /\ OpChildrenAdd(w)
    \/ \E i \in {"x"} : OpChildDeleteByID(i)
    \/ OpChildrenGet
    \/ \E w \in {"cl", "gotl", "nil"} : OpChildrenSet(w)
    \/ \E c \in InputList1 : CallerNewList(c)
    \/ \E w \in {"cl", "gotl"}, i \in {1}, c \in {NilAtom} : CallerListWrite(w, i, c)
    \/ \E d \in GobInput1 : OpFromGob(d)

Spec == Init /\ [][Next]_vars

(***************************************************************************)
(* Threads sharing the atom: every call takes a.mu, works on the fields    *)
(* and releases a.mu                                                       *)
(***************************************************************************)
\* the value a thread sets and the children it adds
ThreadVal(t) == CASE t = 1 -> "v1" [] t = 2 -> "v2" [] OTHER -> "v3"
ChildOf(t) == 10 + t
\* the second child a thread adds, and the list a thread passes to ChildrenSet
SecondChildOf(t) == 20 + t
SetListOf(t) == <<30 + t, 40 + t>>
ThreadCall(op, key, val, child) == [op |-> op, key |-> key, val |-> val, child |-> child]

\* the calls thread t makes, in order
\* (with Remove after Get when the threads run the loop body of the test whole)
Program(t) ==
    IF input.kind = "SetGetRemove"
    THEN <<ThreadCall("Set", "k1", ThreadVal(t), NilAtom),
           ThreadCall("Get", "k1", "", NilAtom),
           ThreadCall("Remove", "k1", "", NilAtom),
           ThreadCall("ChildAdd", "", "", ChildOf(t)),
           ThreadCall("ChildrenGet", "", "", NilAtom)>>
    ELSE IF input.kind = "ChildOps"
    THEN IF t % 2 = 1
         THEN <<ThreadCall("ChildAdd", "", "", ChildOf(t)),
                ThreadCall("ChildrenGet", "", "", NilAtom),
                ThreadCall("ChildAdd", "", "", SecondChildOf(t))>>
         ELSE <<ThreadCall("ChildrenGet", "", "", NilAtom),
                ThreadCall("ChildrenSet", "", "", NilAtom)>>
    ELSE <<ThreadCall("Set", "k1", ThreadVal(t), NilAtom),
           ThreadCall("Get", "k1", "", NilAtom),
           ThreadCall("ChildAdd", "", "", ChildOf(t)),
           ThreadCall("ChildrenGet", "", "", NilAtom)>>
Current(t) == Program(t)[ti[t]]

\* the lock a method takes: RLock in the readers, Lock in the mutators
LockKind_allRead(op) == "R"
LockKind(op) == IF op \in {"Get", "Has", "GetAll", "ChildrenGet", "ChildrenLength"} THEN "R" ELSE "W"

\* sync.RWMutex: Lock waits for the writer and all readers, RLock for the writer
CanLock(m) == m.w = {} /\ m.r = {}
CanRLock(m) == m.w = {}

ThreadsStart(inp) ==
    /\ id = "root"
    /\ atomType = "t"
    /\ properties \in {NilMap, 1}
    /\ maps = IF properties = NilMap THEN <<>> ELSE [r \in {1} |-> EmptyMap]
    /\ children = NilSlice
    /\ arrs = <<>>
    /\ cm = NilMap
    /\ got = NilMap
    /\ cl = NilSlice
    /\ gotl = NilSlice
    /\ last = Call("NewAtom", <<>>, <<>>)
    /\ panicked = FALSE
    /\ mu = [w |-> {}, r |-> {}]
    /\ tpc = [t \in Threads |-> "call"]
    /\ ti = [t \in Threads |-> 1]
    /\ tmp = [t \in Threads |-> NilSlice]
    /\ tres = [t \in Threads |-> [val |-> "", list |-> <<>>]]
    /\ input = inp
    /\ NoTree

InitThreads == ThreadsStart(NoInput)

seqVars == <<id, atomType, cm, got, cl, gotl, last, panicked, input, treeVars>>

\* a.mu.Lock() / a.mu.RLock() at the start of the method
ThreadLock(t) ==
    /\ tpc[t] = "call"
    /\ IF LockKind(Current(t).op) = "W"
       THEN CanLock(mu) /\ mu' = [mu EXCEPT !.w = @ \cup {t}]
       ELSE CanRLock(mu) /\ mu' = [mu EXCEPT !.r = @ \cup {t}]
    /\ tpc' = [tpc EXCEPT ![t] = "locked"]
    /\ UNCHANGED <<properties, children, maps, arrs, ti, tmp, tres, seqVars>>

\* Set: the nil check and the map write
ThreadSet(t) ==
    /\ tpc[t] = "locked" /\ Current(t).op = "Set"
    /\ LET res == SetResult(properties, maps, {}, Current(t).key, Current(t).val)
       IN /\ properties' = res.r
          /\ maps' = Collect(res.h, {res.r})
    /\ tpc' = [tpc EXCEPT ![t] = "unlock"]
    /\ UNCHANGED <<children, arrs, mu, ti, tmp, tres, seqVars>>

\* Get: the lookup
ThreadGet(t) ==
    /\ tpc[t] = "locked" /\ Current(t).op = "Get"
    /\ tres' = [tres EXCEPT ![t].val = Get(Current(t).key)]
    /\ tpc' = [tpc EXCEPT ![t] = "unlock"]
    /\ UNCHANGED <<properties, children, maps, arrs, mu, ti, tmp, seqVars>>

\* ChildAdd: append reads the slice a.children ...
ThreadChildAddRead(t) ==
    /\ tpc[t] = "locked" /\ Current(t).op = "ChildAdd"
    /\ tmp' = [tmp EXCEPT ![t] = children]
    /\ tpc' = [tpc EXCEPT ![t] = "write"]
    /\ UNCHANGED <<properties, children, maps, arrs, mu, ti, tres, seqVars>>

\* ... and its result is stored in a.children
ThreadChildAddWrite(t) ==
    /\ tpc[t] = "write"
    /\ LET others == {tmp[u].arr : u \in Threads \ {t}}
           res == GoAppend(arrs, tmp[t], ChildAddElems(Current(t).child), others, 1)
       IN /\ children' = res.s
          /\ arrs' = Collect(res.h, {res.s.arr} \cup others)
    /\ tmp' = [tmp EXCEPT ![t] = NilSlice]
    /\ tpc' = [tpc EXCEPT ![t] = "unlock"]
    /\ UNCHANGED <<properties, maps, mu, ti, tres, seqVars>>

\* ChildrenGet: make and copy
ThreadChildrenGet(t) ==
    /\ tpc[t] = "locked" /\ Current(t).op = "ChildrenGet"
    /\ tres' = [tres EXCEPT ![t].list = SliceElems(arrs, children)]
    /\ tpc' = [tpc EXCEPT ![t] = "unlock"]
    /\ UNCHANGED <<properties, children, maps, arrs, mu, ti, tmp, seqVars>>

\* the deferred a.mu.Unlock() / a.mu.RUnlock(), and the return
ThreadUnlock(t) ==
    /\ tpc[t] = "unlock"
    /\ mu' = [w |-> mu.w \ {t}, r |-> mu.r \ {t}]
    /\ ti' = [ti EXCEPT ![t] = IF @ < Len(Program(t)) THEN @ + 1 ELSE @]
    /\ tpc' = [tpc EXCEPT ![t] = IF ti[t] < Len(Program(t)) THEN "call" ELSE "done"]
    /\ UNCHANGED <<properties, children, maps, arrs, tmp, tres, seqVars>>

ThreadStep(t) ==
    \/ ThreadLock(t)
    \/ ThreadSet(t)
    \/ ThreadGet(t)
    \/ ThreadChildAddRead(t)
    \/ ThreadChildAddWrite(t)
    \/ ThreadChildrenGet(t)
    \/ ThreadUnlock(t)

NextThreads == \E t \in Threads : ThreadStep(t)

\* the scheduler runs every thread that can take a step
SpecThreads == InitThreads /\ [][NextThreads]_vars /\ \A t \in Threads : WF_vars(ThreadStep(t))

\* Remove: delete(a.properties, key)
ThreadRemove(t) ==
    /\ tpc[t] = "locked" /\ Current(t).op = "Remove"
    /\ maps' = IF properties = NilMap THEN maps
               ELSE [maps EXCEPT ![properties] = RemoveFrom(@, Current(t).key)]
    /\ tpc' = [tpc EXCEPT ![t] = "unlock"]
    /\ UNCHANGED <<properties, children, arrs, mu, ti, tmp, tres, seqVars>>

\* the threads of the test: Set, Get, Remove, ChildAdd, ChildrenGet
InitRemoving == ThreadsStart([kind |-> "SetGetRemove"])
NextRemoving == \E t \in Threads : ThreadStep(t) \/ ThreadRemove(t)
SpecRemoving ==
    InitRemoving /\ [][NextRemoving]_vars
    /\ \A t \in Threads : WF_vars(ThreadStep(t) \/ ThreadRemove(t))

\* ChildrenSet(children) with the list []AtomInterface{...} the thread made:
\* the filtered copy is stored in a.children
ThreadChildrenSet(t) ==
    /\ tpc[t] = "locked" /\ Current(t).op = "ChildrenSet"
    /\ LET others == {tmp[u].arr : u \in Threads \ {t}}
           mine == MakeCopy(arrs, SetListOf(t), {children.arr} \cup others, 2)
           res == ChildrenSetResult(mine.h, mine.s, {children.arr, mine.s.arr} \cup others)
       IN /\ children' = res.s
          /\ arrs' = Collect(res.h, {res.s.arr} \cup others)
    /\ tpc' = [tpc EXCEPT ![t] = "unlock"]
    /\ UNCHANGED <<properties, maps, mu, ti, tmp, tres, seqVars>>

\* the threads of the test of the child operations: some add children, the
\* others read the children and replace them
InitChildOps == ThreadsStart([kind |-> "ChildOps"])
ThreadChildStep(t) ==
    \/ ThreadLock(t)
    \/ ThreadChildAddRead(t)
    \/ ThreadChildAddWrite(t)
    \/ ThreadChildrenGet(t)
    \/ ThreadChildrenSet(t)
    \/ ThreadUnlock(t)
NextChildOps == \E t \in Threads : ThreadChildStep(t)
SpecChildOps ==
    InitChildOps /\ [][NextChildOps]_vars /\ \A t \in Threads : WF_vars(ThreadChildStep(t))

\* every thread has returned from its last call
AllDone == \A t \in Threads : tpc[t] = "done"

\* the children the threads added, and how often a child occurs in a list
AddedChildren == {ChildOf(t) : t \in Threads}
Occurrences(seq, c) == Cardinality({i \in 1..Len(seq) : seq[i] = c})

\* C1: the threads all return, and then the children are those passed to
\* ChildAdd, each exactly once, and the key that was set holds a value some
\* thread set.
C1_ConcurrentUnion ==
    /\ <>AllDone
    /\ [](AllDone =>
            /\ ChildrenLength = Cardinality(AddedChildren)
            /\ \A c \in AddedChildren : Occurrences(ChildrenGetContent, c) = 1
            /\ Has("k1")
            /\ Get("k1") \in {ThreadVal(t) : t \in Threads}
            /\ DOMAIN maps[properties] = {"k1"})

C1_Witness ==
    /\ AllDone
    /\ ChildrenLength = NThreads
    /\ ChildrenGetContent[1] = ChildOf(NThreads)
    /\ Get("k1") = ThreadVal(1)

(***************************************************************************)
(* Properties of the sequential interface                                  *)
(***************************************************************************)
\* everything the read operations of the atom return
View == [get |-> [k \in Keys |-> Get(k)],
         has |-> [k \in Keys |-> Has(k)],
         all |-> GetAllContent,
         kids |-> ChildrenGetContent,
         n |-> ChildrenLength]

\* the step is a write of the caller to the map or slice an accessor returned
WritesReturned == /\ last'.op \in {"CallerMapWrite", "CallerMapDelete", "CallerListWrite"}
                  /\ last'.arg[1] \in {"got", "gotl"}

\* C2 as stated: in every reachable state no map and no backing array the
\* atom uses is also held by caller code.
C2_NoSharedStorage ==
    /\ properties # NilMap => properties \notin {cm, got}
    /\ children.arr # NilArr => children.arr \notin {cl.arr, gotl.arr}

\* C2 amended: the atom never uses a backing array the caller holds nor the
\* map an accessor returned; its property map is one the caller holds only
\* when a SetAll step put it there.
C2_SharedOnlyBySetAll ==
    /\ [](children.arr # NilArr => children.arr \notin {cl.arr, gotl.arr})
    /\ [](properties # NilMap => properties # got)
    /\ [][(properties' # NilMap /\ properties' = cm' /\ ~(properties = cm /\ cm' = cm))
            => last'.op = "SetAll"]_vars

C2_Witness ==
    /\ properties # NilMap /\ properties = cm
    /\ got # NilMap
    /\ children.arr # NilArr /\ gotl.arr # NilArr /\ cl.arr # NilArr

C4_PropertyRoundTrip ==
    [][/\ last'.op = "Set" =>
            LET k == last'.arg[1]
                v == last'.arg[2]
            IN /\ GetIn(properties', maps', k) = v
               /\ HasIn(properties', maps', k)
               /\ \A o \in Keys \ {k} : /\ GetIn(properties', maps', o) = Get(o)
                                        /\ HasIn(properties', maps', o) = Has(o)
       /\ last'.op = "Remove" =>
            LET k == last'.arg[1]
            IN /\ GetIn(properties', maps', k) = ""
               /\ ~HasIn(properties', maps', k)
               /\ \A o \in Keys \ {k} : /\ GetIn(properties', maps', o) = Get(o)
                                        /\ HasIn(properties', maps', o) = Has(o)
               /\ ~HasIn(properties, maps, k) => GetAllContent' = GetAllContent]_vars

C4_Witness ==
    /\ last.op = "Remove"
    /\ properties # NilMap
    /\ ~Has(last.arg[1])
    /\ \E o \in Keys : Has(o) /\ Get(o) = "v1"

\* C5: no core operation panics in a state reachable through the interface.
C5_NoPanic == ~panicked

\* C6: the children of the atom never contain a nil entry.
C6_NoNilChildren == \A i \in 1..ChildrenLength : ChildrenGetContent[i] # NilAtom

\* C7: ChildAdd and ChildrenAdd put the children they are given after the
\* ones already present, in the order given; ChildAdd(nil) changes nothing.
C7_AppendOrder ==
    [][/\ last'.op = "ChildAdd" =>
            ChildrenGetContent' = ChildrenGetContent \o FilterNil(<<last'.arg[1]>>)
       /\ last'.op = "ChildrenAdd" =>
            LET list == SliceElems(arrs, ArgList(last'.arg[1]))
                old == ChildrenGetContent
                new == ChildrenGetContent'
            IN /\ Len(new) >= Len(old)
               /\ SubSeq(new, 1, Len(old)) = old
               /\ FilterNil(SubSeq(new, Len(old) + 1, Len(new))) = FilterNil(list)]_vars

C7_Witness ==
    /\ last.op = "ChildrenAdd" /\ last.arg[1] = "cl"
    /\ SliceElems(arrs, cl) = <<1, 2>>
    /\ ChildrenGetContent = <<3, 1, 2>>

\* the list without its i-th entry
RemoveAt(seq, i) == SubSeq(seq, 1, i - 1) \o SubSeq(seq, i + 1, Len(seq))
\* the positions of the children with the id
Matches(seq, cid) == {i \in 1..Len(seq) : seq[i] # NilAtom /\ KidID(seq[i]) = cid}

\* C8: ChildDeleteByID(id) removes exactly the first immediate child with
\* that id and keeps the others in order; without such a child the list
\* stays as it is.
C8_DeleteFirstMatch ==
    [][last'.op = "ChildDeleteByID" =>
            LET old == ChildrenGetContent
                hits == Matches(old, last'.arg[1])
            IN IF hits = {}
               THEN ChildrenGetContent' = old
               ELSE ChildrenGetContent' =
                        RemoveAt(old, CHOOSE i \in hits : \A j \in hits : i <= j)]_vars

\* C9: ChildrenSet(list) leaves exactly the non-nil entries of list, in
\* order (none for a nil or empty list), and a later write of the caller to
\* the list does not change the children.
C9_SetReplaces ==
    [][/\ last'.op = "ChildrenSet" =>
            ChildrenGetContent' = FilterNil(SliceElems(arrs, ArgList(last'.arg[1])))
       /\ last'.op = "CallerListWrite" => ChildrenGetContent' = ChildrenGetContent]_vars

C9_Witness ==
    /\ last.op = "ChildrenSet" /\ last.arg[1] = "cl"
    /\ SliceElems(arrs, cl) = <<NilAtom, 2>>
    /\ ChildrenGetContent = <<2>>

\* the map SetAll was called with, before the call
SetAllArg(which) == CASE which = "cm" -> cm [] which = "got" -> got [] OTHER -> NilMap

\* what C10 says of the SetAll step itself and of GetAll's copy: the atom
\* holds the very map it was given, so the old keys are gone, and a write to
\* the map GetAll returned changes nothing
C10_Replace ==
    /\ last'.op = "SetAll" =>
          /\ properties' = SetAllArg(last'.arg[1])
          /\ properties' # NilMap => maps'[properties'] = maps[properties']
    /\ (last'.op \in {"CallerMapWrite", "CallerMapDelete"} /\ last'.arg[1] = "got") =>
          GetAllContent' = GetAllContent

\* C10 as stated: the atom keeps the map given to SetAll until the next
\* SetAll, so what the caller writes to it is what Get returns.
C10_ByReferenceUntilSetAll ==
    [][/\ C10_Replace
       /\ (cm # NilMap /\ properties = cm /\ cm' = cm /\ last'.op # "SetAll") =>
             /\ properties' = cm
             /\ \A k \in Keys : GetIn(properties', maps', k) = MapGet(maps'[cm], k)]_vars

\* C10 amended: ... until the next SetAll or FromGob.
C10_ByReferenceUntilReplaced ==
    [][/\ C10_Replace
       /\ (cm # NilMap /\ properties = cm /\ cm' = cm /\ last'.op \notin {"SetAll", "FromGob"}) =>
             /\ properties' = cm
             /\ \A k \in Keys : GetIn(properties', maps', k) = MapGet(maps'[cm], k)]_vars

C10_Witness ==
    /\ last.op = "CallerMapWrite" /\ last.arg[1] = "cm"
    /\ properties = cm
    /\ Get(last.arg[2]) = last.arg[3]
    /\ got # NilMap /\ maps[got] # maps[cm]

(***************************************************************************)
(* Trees of atoms and the functions that search them                       *)
(* (find_atom_by_id.go, find_atoms_by_type.go, FindFirstAtomByType)        *)
(***************************************************************************)
\* what GetID and GetType return for the nodes of a tree
Labels == {[id |-> "x", type |-> "a"], [id |-> "y", type |-> "a"], [id |-> "y", type |-> "b"]}

\* the trees callers build: the root and what ChildrenGet returns for each
\* node (nil entries included): the tree root -> [a -> [a1, a2], b -> [b1]],
\* the same with the subtrees in the other order, a tree with nil entries
\* among the children, a single node, and no tree at all (a nil root)
TreeShapes ==
    {[root |-> 1, kids |-> (1 :> <<2, 5>> @@ 2 :> <<3, 4>> @@ 3 :> <<>> @@ 4 :> <<>> @@ 5 :> <<6>> @@ 6 :> <<>>)],
     [root |-> 1, kids |-> (1 :> <<5, 2>> @@ 2 :> <<3, 4>> @@ 3 :> <<>> @@ 4 :> <<>> @@ 5 :> <<6>> @@ 6 :> <<>>)],
     [root |-> 1, kids |-> (1 :> <<NilAtom, 2>> @@ 2 :> <<3, NilAtom, 4>> @@ 3 :> <<>> @@ 4 :> <<>>)],
     [root |-> 1, kids |-> (1 :> <<>>)],
     [root |-> NilAtom, kids |-> <<>>]}
TreeInputs ==
    UNION {{[kind |-> "tree", root |-> s.root, kids |-> s.kids, lab |-> l] :
                l \in [DOMAIN s.kids -> Labels]} : s \in TreeShapes}

RECURSIVE FindAtomByID(_, _, _)
RECURSIVE FindAtomByIDLoop(_, _, _)
\* the loop over root.ChildrenGet(): the first child in whose subtree the id is found
FindAtomByIDLoop_reversed(tree, kids, fid) ==
    IF kids = <<>> THEN NilAtom
    ELSE LET found == FindAtomByIDLoop(tree, Tail(kids), fid)
         IN IF found # NilAtom THEN found ELSE FindAtomByID(tree, Head(kids), fid)
FindAtomByIDLoop(tree, kids, fid) ==
    IF kids = <<>> THEN NilAtom
    ELSE LET found == FindAtomByID(tree, Head(kids), fid)
         IN IF found # NilAtom THEN found ELSE FindAtomByIDLoop(tree, Tail(kids), fid)
\* FindAtomByID(root, id)
FindAtomByID(tree, root, fid) ==
    IF root = NilAtom THEN NilAtom
    ELSE IF tree.lab[root].id = fid THEN root
         ELSE FindAtomByIDLoop(tree, tree.kids[root], fid)

\* a call that reads its argument and changes nothing
PureCall(op, arg, ret) ==
    /\ last' = Call(op, arg, ret)
    /\ UNCHANGED <<atomVars, maps, arrs, cm, got, cl, gotl, panicked, threadVars, input, treeVars>>

OpFindAtomByID(fid) ==
    /\ input.kind = "tree"
    /\ PureCall("FindAtomByID", <<fid>>, FindAtomByID(input, input.root, fid))

RECURSIVE PreOrder(_, _)
RECURSIVE PreOrderAll(_, _)
\* the nodes of the tree in pre-order: the root, then the subtree of each
\* child in turn, left to right
PreOrderAll(tree, kids) ==
    IF kids = <<>> THEN <<>>
    ELSE PreOrder(tree, Head(kids)) \o PreOrderAll(tree, Tail(kids))
PreOrder(tree, root) ==
    IF root = NilAtom THEN <<>> ELSE <<root>> \o PreOrderAll(tree, tree.kids[root])

\* C11: FindAtomByID returns the first node in pre-order with the id, which
\* has that id, and nil when no node has it or the root is nil.
C11_FindByIDPreOrder ==
    last.op = "FindAtomByID" =>
        LET pre == PreOrder(input, input.root)
            hits == {i \in 1..Len(pre) : input.lab[pre[i]].id = last.arg[1]}
        IN IF hits = {} THEN last.ret = NilAtom
           ELSE /\ last.ret = pre[CHOOSE i \in hits : \A j \in hits : i <= j]
                /\ input.lab[last.ret].id = last.arg[1]

C11_Witness ==
    /\ last.op = "FindAtomByID"
    /\ input.root = 1 /\ input.kids[1] = <<5, 2>>
    /\ last.ret = 6
    /\ input.lab[2].id = last.arg[1] /\ input.lab[3].id = last.arg[1]

RECURSIVE FindAtomsByType(_, _, _)
RECURSIVE FindAtomsByTypeLoop(_, _, _, _)
\* the loop over root.ChildrenGet(): result = append(result, FindAtomsByType(child, atomType)...)
FindAtomsByTypeLoop(tree, kids, t, result) ==
    IF kids = <<>> THEN result
    ELSE FindAtomsByTypeLoop(tree, Tail(kids), t,
                             AppendList(result, FindAtomsByType(tree, Head(kids), t).list))
\* FindAtomsByType(root, atomType)
FindAtomsByType_childrenFirst(tree, root, t) ==
    IF root = NilAtom THEN EmptyList
    ELSE AppendList(FindAtomsByTypeLoop(tree, tree.kids[root], t, EmptyList),
                    IF tree.lab[root].type = t THEN <<root>> ELSE <<>>)
FindAtomsByType(tree, root, t) ==
    IF root = NilAtom THEN EmptyList
    ELSE FindAtomsByTypeLoop(tree, tree.kids[root], t,
                             IF tree.lab[root].type = t
                             THEN AppendList(EmptyList, <<root>>) ELSE EmptyList)

OpFindAtomsByType(t) ==
    /\ input.kind = "tree"
    /\ PureCall("FindAtomsByType", <<t>>, FindAtomsByType(input, input.root, t))

RECURSIVE OfType(_, _, _)
\* the nodes of a list that have the type, in the order of the list
OfType(tree, seq, t) ==
    IF seq = <<>> THEN <<>>
    ELSE IF tree.lab[Head(seq)].type = t THEN <<Head(seq)>> \o OfType(tree, Tail(seq), t)
         ELSE OfType(tree, Tail(seq), t)

\* C12: FindAtomsByType returns the nodes of the type, each once, in
\* pre-order, in a list that is never nil; for root -> [a -> [a1, a2],
\* b -> [b1]] with only a1, b, b1 of the type that is [a1, b, b1].
C12_FindAllPreOrder ==
    last.op = "FindAtomsByType" =>
        LET t == last.arg[1]
            nodes == DOMAIN input.kids
        IN /\ ~last.ret.isNil
           /\ last.ret.list = OfType(input, PreOrder(input, input.root), t)
           /\ \A n \in nodes :
                 Occurrences(last.ret.list, n) = IF input.lab[n].type = t THEN 1 ELSE 0
           /\ (input.root = 1 /\ input.kids[1] = <<2, 5>>
                 /\ {n \in nodes : input.lab[n].type = t} = {3, 5, 6})
                => last.ret.list = <<3, 5, 6>>

C12_Witness ==
    /\ last.op = "FindAtomsByType"
    /\ input.root = 1 /\ input.kids[1] = <<2, 5>>
    /\ last.ret = [isNil |-> FALSE, list |-> <<3, 5, 6>>]

RECURSIVE FindFirstAtomByType(_, _, _)
RECURSIVE FindFirstAtomByTypeLoop(_, _, _)
\* the loop over root.ChildrenGet(): the first child in whose subtree the type is found
FindFirstAtomByTypeLoop_reversed(tree, kids, t) ==
    IF kids = <<>> THEN NilAtom
    ELSE LET found == FindFirstAtomByTypeLoop(tree, Tail(kids), t)
         IN IF found # NilAtom THEN found ELSE FindFirstAtomByType(tree, Head(kids), t)
FindFirstAtomByTypeLoop(tree, kids, t) ==
    IF kids = <<>> THEN NilAtom
    ELSE LET found == FindFirstAtomByType(tree, Head(kids), t)
         IN IF found # NilAtom THEN found ELSE FindFirstAtomByTypeLoop(tree, Tail(kids), t)
\* FindFirstAtomByType(root, atomType)
FindFirstAtomByType(tree, root, t) ==
    IF root = NilAtom THEN NilAtom
    ELSE IF tree.lab[root].type = t THEN root
         ELSE FindFirstAtomByTypeLoop(tree, tree.kids[root], t)

OpFindFirstAtomByType(t) ==
    /\ input.kind = "tree"
    /\ PureCall("FindFirstAtomByType", <<t>>, FindFirstAtomByType(input, input.root, t))

InitFind == InitAtom /\ input \in TreeInputs /\ NoTree

NextFind ==
    \/ \E i \in IDs : OpFindAtomByID(i)
    \/ \E t \in Types : OpFindAtomsByType(t)
    \/ \E t \in Types : OpFindFirstAtomByType(t)

SpecFind == InitFind /\ [][NextFind]_vars

\* C13: FindFirstAtomByType returns the first element of what
\* FindAtomsByType returns for the same tree and type, and nil exactly when
\* that list is empty.
C13_FirstIsHeadOfAll ==
    last.op = "FindFirstAtomByType" =>
        LET all == FindAtomsByType(input, input.root, last.arg[1]).list
        IN /\ (last.ret = NilAtom) <=> (all = <<>>)
           /\ all # <<>> => last.ret = all[1]

C13_Witness ==
    /\ last.op = "FindFirstAtomByType"
    /\ input.root = 1 /\ input.kids[1] = <<5, 2>>
    /\ last.ret = 6
    /\ Len(FindAtomsByType(input, input.root, last.arg[1]).list) = 3

(***************************************************************************)
(* Searching the immediate children                                        *)
(***************************************************************************)
\* C14: ChildFindByID returns the first immediate child, in insertion order,
\* with the id, nil when no immediate child has it, and never a grandchild.
C14_FindImmediateByID ==
    last.op = "ChildFindByID" =>
        LET elems == ChildrenGetContent
            hits == Matches(elems, last.arg[1])
        IN /\ IF hits = {} THEN last.ret = NilAtom
              ELSE last.ret = elems[CHOOSE i \in hits : \A j \in hits : i <= j]
           /\ last.ret # NilAtom => Occurrences(elems, last.ret) > 0
           /\ Occurrences(GrandChildren(elems), last.ret) = 0

C14_Witness ==
    /\ last.op = "ChildFindByID" /\ last.arg[1] = "z"
    /\ ChildrenGetContent = <<1, 3>>
    /\ last.ret = NilAtom

\* C15: ChildrenFindByType returns the immediate children of the type, in
\* insertion order, no grandchild among them, in a list that is never nil.
C15_FindImmediateByType ==
    last.op = "ChildrenFindByType" =>
        LET elems == ChildrenGetContent
        IN /\ ~last.ret.isNil
           /\ LET idx == {i \in 1..Len(elems) :
                              elems[i] # NilAtom /\ KidType(elems[i]) = last.arg[1]}
              IN /\ Len(last.ret.list) = Cardinality(idx)
                 /\ \A i \in idx :
                       last.ret.list[Cardinality({j \in idx : j <= i})] = elems[i]
           /\ \A i \in 1..Len(last.ret.list) :
                 /\ Occurrences(elems, last.ret.list[i]) > 0
                 /\ Occurrences(GrandChildren(elems), last.ret.list[i]) = 0

C15_Witness ==
    /\ last.op = "ChildrenFindByType" /\ last.arg[1] = "b"
    /\ ChildrenGetContent = <<3, 2, 1>>
    /\ last.ret = [isNil |-> FALSE, list |-> <<2>>]

(***************************************************************************)
(* Conversions (functions.go, Atom.ToMap, Atom.ToGob): Go values of type   *)
(* any carry their dynamic type, which the type assertions look at         *)
(***************************************************************************)
\* a value of type any: its dynamic type t and what it holds
AnyNil == [t |-> "nil", v |-> <<>>]
AnyString(str) == [t |-> "string", v |-> str]
AnyInt(n) == [t |-> "int", v |-> n]
AnyStringMap(m) == [t |-> "map[string]string", v |-> m]
AnyMap(m) == [t |-> "map[string]any", v |-> m]
AnyMapList(l) == [t |-> "[]map[string]any", v |-> l]
AnyList(l) == [t |-> "[]any", v |-> l]

\* v.(string) with the comma-ok form: the zero value when the assertion fails
AsString(m, key) ==
    IF key \in DOMAIN m /\ m[key].t = "string" THEN m[key].v ELSE ""

\* strconv of the small numbers the inputs hold
IntString(n) == <<"0", "1", "2", "3", "4", "5", "6", "7", "8", "9">>[n + 1]
\* the string MapToAtom makes of a property value: the string itself, else
\* fmt.Sprintf("%v", v)
Sprint(val) ==
    CASE val.t = "string" -> val.v
      [] val.t \in {"int", "float64"} -> IntString(val.v)
      [] val.t = "nil" -> "<nil>"
      [] OTHER -> "%v"

\* an atom as a value: its id, type, the contents of its property map and
\* its children, each again such a value (NoAtom for a nil child)
NoAtom == [isNil |-> TRUE]
AtomVal(i, t, props, kids) == [isNil |-> FALSE, id |-> i, type |-> t, props |-> props, kids |-> kids]
\* the id uid.HumanUid() generates
GeneratedID == "uid"
\* NewAtom(atomType, WithID(id)) and NewAtom(atomType)
NewAtomVal(t, i) == AtomVal(IF i = "" THEN GeneratedID ELSE i, t, EmptyMap, <<>>)

\* what a conversion returns: an error or an atom
Failed == [err |-> TRUE, atom |-> NoAtom]
Converted(a) == [err |-> FALSE, atom |-> a]

\* the keys MapToAtom does not take for properties
TopLevelKeys == {"id", "type", "properties", "children"}

\* MapToAtom without its loop over the other top-level keys
MapToAtomProps_nestedOnly(m) ==
    LET nested == IF "properties" \in DOMAIN m /\ m["properties"].t = "map[string]any"
                  THEN m["properties"].v ELSE <<>>
    IN [k \in DOMAIN nested |-> Sprint(nested[k])]

\* MapToAtom: props after the nested properties map and the other top-level
\* keys (these win) have been put in
MapToAtomProps(m) ==
    LET nested == IF "properties" \in DOMAIN m /\ m["properties"].t = "map[string]any"
                  THEN m["properties"].v ELSE <<>>
        top == (DOMAIN m) \ TopLevelKeys
    IN [k \in (DOMAIN nested) \cup top |->
            IF k \in top THEN Sprint(m[k]) ELSE Sprint(nested[k])]

RECURSIVE MapToAtom(_)
RECURSIVE MapToAtomChildren(_, _)
\* MapToAtom: the loop over children.([]any): a child that is a
\* map[string]any is converted and added, an error ends the conversion,
\* any other entry is passed over
MapToAtomChildren(list, kids) ==
    IF list = <<>> THEN [err |-> FALSE, kids |-> kids]
    ELSE IF Head(list).t = "map[string]any"
         THEN LET c == MapToAtom(Head(list))
              IN IF c.err THEN [err |-> TRUE, kids |-> kids]
                 ELSE MapToAtomChildren(Tail(list), kids \o <<c.atom>>)
         ELSE MapToAtomChildren(Tail(list), kids)

\* MapToAtom(atomMap), atomMap nil or a map[string]any
MapToAtom(atomMap) ==
    IF atomMap.t = "nil" THEN Failed
    ELSE LET m == atomMap.v
             typ == AsString(m, "type")
             i == AsString(m, "id")
         IN IF typ = "" THEN Failed
            ELSE LET atom == NewAtomVal(typ, i)
                     list == IF "children" \in DOMAIN m /\ m["children"].t = "[]any"
                             THEN m["children"].v ELSE <<>>
                     c == MapToAtomChildren(list, <<>>)
                 IN IF c.err THEN Failed
                    ELSE Converted(AtomVal(atom.id, atom.type, MapToAtomProps(m), c.kids))

\* the maps callers hand to MapToAtom: the id, type, another top-level key,
\* properties and children each absent or present in several forms
IdFields == {<<>>, "id" :> AnyString(""), "id" :> AnyString("x"), "id" :> AnyInt(5)}
TypeFields == {<<>>, "type" :> AnyString(""), "type" :> AnyString("a"), "type" :> AnyInt(5)}
OtherFields == {<<>>, "bogusKey" :> AnyInt(1)}
PropertiesFields ==
    {<<>>,
     "properties" :> AnyMap("k1" :> AnyString("v1")),
     "properties" :> AnyMap("k1" :> AnyInt(1)),
     "properties" :> AnyStringMap("k1" :> "v1")}
ChildMap == AnyMap("id" :> AnyString("c") @@ "type" :> AnyString("b"))
ChildrenFields ==
    {<<>>,
     "children" :> AnyList(<<ChildMap>>),
     "children" :> AnyList(<<AnyNil, ChildMap>>),
     "children" :> AnyList(<<ChildMap, AnyMap("id" :> AnyString("d"))>>),
     "children" :> AnyList(<<AnyMap("type" :> AnyString("b"))>>),
     "children" :> AnyMapList(<<ChildMap.v>>)}
MapInputs ==
    {[kind |-> "map", arg |-> AnyNil]} \cup
    {[kind |-> "map", arg |-> AnyMap(i @@ t @@ o @@ p @@ c)] :
        i \in IdFields, t \in TypeFields, o \in OtherFields,
        p \in PropertiesFields, c \in ChildrenFields}

\* MapToAtom / NewAtomFromMap applied to the map
OpMapToAtom ==
    /\ input.kind = "map"
    /\ PureCall("MapToAtom", <<>>, MapToAtom(input.arg))

\* the id or type of a map is a non-empty string
NonEmptyString(m, key) == key \in DOMAIN m /\ m[key].t = "string" /\ m[key].v # ""

\* C16: MapToAtom fails, returning no atom, for a nil map, for a map whose
\* id is missing or not a non-empty string and for a map whose type is
\* missing or not a non-empty string.
C16_RequiresIdAndType ==
    (last.op = "MapToAtom"
       /\ (input.arg.t = "nil" \/ ~NonEmptyString(input.arg.v, "id")
                               \/ ~NonEmptyString(input.arg.v, "type")))
    => (last.ret.err /\ last.ret.atom = NoAtom)

ChildFails(m) ==
    /\ "children" \in DOMAIN m
    /\ m["children"].t = "[]any"
    /\ \E n \in 1..Len(m["children"].v) :
          /\ m["children"].v[n].t = "map[string]any"
          /\ MapToAtom(m["children"].v[n]).err

ReservedKeys == {"id", "type"}

RECURSIVE ToMap(_)
RECURSIVE ToMapChildren(_)
\* Atom.ToMap: the loop over a.children: the maps of the non-nil children
ToMapChildren(kids) ==
    IF kids = <<>> THEN <<>>
    ELSE IF Head(kids).isNil THEN ToMapChildren(Tail(kids))
         ELSE <<ToMap(Head(kids)).v>> \o ToMapChildren(Tail(kids))
\* Atom.ToMap if it copied every property and always added the copy
ToMap_allProps(a) ==
    AnyMap("id" :> AnyString(a.id) @@ "type" :> AnyString(a.type)
           @@ "children" :> AnyMapList(ToMapChildren(a.kids))
           @@ "properties" :> AnyStringMap(a.props))

\* Atom.ToMap: a map[string]any with the id, the type, the children as a
\* []map[string]any and, when there are any, the properties as a
\* map[string]string
ToMap(a) ==
    LET props == [k \in (DOMAIN a.props) \ ReservedKeys |-> a.props[k]]
        result == "id" :> AnyString(a.id) @@ "type" :> AnyString(a.type)
                    @@ "children" :> AnyMapList(ToMapChildren(a.kids))
    IN AnyMap(IF DOMAIN props # {} THEN result @@ "properties" :> AnyStringMap(props)
              ELSE result)

\* a.ToMap()
OpToMap ==
    /\ input.kind = "atom"
    /\ PureCall("ToMap", <<>>, ToMap(input.atom))

\* MapToAtom applied to what ToMap returns, as it is
OpToMapToAtom ==
    /\ input.kind = "atom"
    /\ PureCall("ToMapToAtom", <<>>, MapToAtom(ToMap(input.atom)))

(***************************************************************************)
(* JSON: a document is the text's value (an object, an array, a string, a  *)
(* number, null), the empty text, or text that is not JSON                 *)
(***************************************************************************)
JNull == [t |-> "null", v |-> <<>>]
JString(str) == [t |-> "string", v |-> str]
JNumber(n) == [t |-> "number", v |-> n]
JObject(m) == [t |-> "object", v |-> m]
JArray(l) == [t |-> "array", v |-> l]
JEmptyText == [t |-> "empty", v |-> <<>>]
JMalformed == [t |-> "malformed", v |-> <<>>]
\* text that is not JSON and begins and ends with a double quote
JMalformedQuoted == [t |-> "malformedQuoted", v |-> <<>>]
\* the text of a document with white space before or after it
JPadded(doc) == [t |-> "padded", v |-> doc]

RECURSIVE Marshal(_)
\* json.Marshal of a value of type any
Marshal(val) ==
    CASE val.t = "nil" -> JNull
      [] val.t = "string" -> JString(val.v)
      [] val.t \in {"int", "float64"} -> JNumber(val.v)
      [] val.t = "map[string]string" -> JObject([k \in DOMAIN val.v |-> JString(val.v[k])])
      [] val.t = "map[string]any" -> JObject([k \in DOMAIN val.v |-> Marshal(val.v[k])])
      [] val.t = "[]map[string]any" ->
            JArray([i \in 1..Len(val.v) |-> Marshal(AnyMap(val.v[i]))])
      [] val.t = "[]any" -> JArray([i \in 1..Len(val.v) |-> Marshal(val.v[i])])

RECURSIVE Unmarshal_typedLists(_)
\* json.Unmarshal if it gave arrays the type []map[string]any
Unmarshal_typedLists(doc) ==
    CASE doc.t = "null" -> AnyNil
      [] doc.t = "string" -> AnyString(doc.v)
      [] doc.t = "number" -> [t |-> "float64", v |-> doc.v]
      [] doc.t = "object" -> AnyMap([k \in DOMAIN doc.v |-> Unmarshal_typedLists(doc.v[k])])
      [] doc.t = "array" -> AnyMapList([i \in 1..Len(doc.v) |-> Unmarshal_typedLists(doc.v[i])])

RECURSIVE Unmarshal(_)
\* json.Unmarshal into a value of type any: objects become map[string]any,
\* arrays []any, numbers float64
Unmarshal(doc) ==
    CASE doc.t = "null" -> AnyNil
      [] doc.t = "string" -> AnyString(doc.v)
      [] doc.t = "number" -> [t |-> "float64", v |-> doc.v]
      [] doc.t = "object" -> AnyMap([k \in DOMAIN doc.v |-> Unmarshal(doc.v[k])])
      [] doc.t = "array" -> AnyList([i \in 1..Len(doc.v) |-> Unmarshal(doc.v[i])])

\* a list of atoms handed to or returned by a function: nil or not, and its
\* entries (NoAtom for a nil entry)
NilAtoms == [isNil |-> TRUE, list |-> <<>>]
Atoms(l) == [isNil |-> FALSE, list |-> l]

RECURSIVE ToMaps(_)
\* AtomsToJSON: the loop: atomsMaps = append(atomsMaps, atom.ToMap()) for the non-nil atoms
ToMaps(l) ==
    IF l = <<>> THEN <<>>
    ELSE IF Head(l).isNil THEN ToMaps(Tail(l))
         ELSE <<ToMap(Head(l)).v>> \o ToMaps(Tail(l))
\* AtomsToJSON if it marshalled a nil list as a nil slice
AtomsToJSON_nilAsNull(atoms) ==
    IF atoms.isNil THEN JNull ELSE Marshal(AnyMapList(ToMaps(atoms.list)))
\* AtomsToJSON(atoms): the text returned (json.Marshal of these maps does not fail)
AtomsToJSON(atoms) ==
    IF atoms.isNil THEN JArray(<<>>) ELSE Marshal(AnyMapList(ToMaps(atoms.list)))

RECURSIVE HasText(_, _)
\* strings.Contains(jsonString, `"word"`): the word is a key or a string of the document
HasText(doc, word) ==
    CASE doc.t = "string" -> doc.v = word
      [] doc.t = "object" -> word \in DOMAIN doc.v \/ \E k \in DOMAIN doc.v : HasText(doc.v[k], word)
      [] doc.t = "array" -> \E i \in 1..Len(doc.v) : HasText(doc.v[i], word)
      [] OTHER -> FALSE

\* isValidAtomJSON(jsonString)
IsValidAtomJSON(doc) ==
    CASE doc.t \in {"empty", "null"} -> FALSE
      [] doc.t = "array" -> TRUE
      [] doc.t = "object" -> HasText(doc, "id") /\ HasText(doc, "type")
      [] OTHER -> FALSE

\* what the conversion of a list returns: an error or the atoms
FailedList == [err |-> TRUE, atoms |-> <<>>]
ConvertedList(l) == [err |-> FALSE, atoms |-> l]

RECURSIVE JSONToAtomsLoop(_, _)
\* JSONToAtoms: the loop over atomsMap: nil maps are passed over, an error of
\* MapToAtom ends the conversion
JSONToAtomsLoop(list, atoms) ==
    IF list = <<>> THEN ConvertedList(atoms)
    ELSE IF Head(list).t = "nil" THEN JSONToAtomsLoop(Tail(list), atoms)
         ELSE LET a == MapToAtom(Head(list))
              IN IF a.err THEN FailedList
                 ELSE JSONToAtomsLoop(Tail(list), atoms \o <<a.atom>>)

\* JSONToAtoms(atomsJson)
JSONToAtoms(doc) ==
    IF doc.t \in {"empty", "string", "malformedQuoted"} THEN ConvertedList(<<>>)
    ELSE IF ~IsValidAtomJSON(doc) THEN FailedList
    ELSE IF doc.t = "array"
         THEN IF \A i \in 1..Len(doc.v) : doc.v[i].t \in {"object", "null"}
              THEN JSONToAtomsLoop(Unmarshal(doc).v, <<>>)
              ELSE FailedList
         ELSE IF doc.t = "object" THEN JSONToAtomsLoop(<<Unmarshal(doc)>>, <<>>)
              ELSE FailedList

\* JSONToAtom(jsonStr): json.Unmarshal into a map[string]any fails for
\* everything but an object and null, white space around the document is
\* skipped, and null leaves the map nil
JSONToAtom(doc) ==
    CASE doc.t = "object" -> MapToAtom(Unmarshal(doc))
      [] doc.t = "padded" /\ doc.v.t = "object" -> MapToAtom(Unmarshal(doc.v))
      [] doc.t = "null" -> MapToAtom(AnyNil)
      [] OTHER -> Failed

\* JSONToAtom and JSONToAtoms applied to the same text
OpJSONToAtomBoth ==
    /\ input.kind = "json"
    /\ PureCall("JSONToAtomBoth", <<>>, [one |-> JSONToAtom(input.doc), many |-> JSONToAtoms(input.doc)])

\* JSONToAtoms(AtomsToJSON([]AtomInterface{N}))
OpJSONRoundTrip ==
    /\ input.kind = "atom"
    /\ PureCall("JSONRoundTrip", <<>>, JSONToAtoms(AtomsToJSON(Atoms(<<input.atom>>))))

\* JSONToAtoms applied to a text
OpJSONToAtoms ==
    /\ input.kind = "json"
    /\ PureCall("JSONToAtoms", <<>>, JSONToAtoms(input.doc))

(***************************************************************************)
(* Gob: encoded data is empty, not a gob stream, or a struct sent with the *)
(* names of its fields; the decoder fills the fields of the receiving      *)
(* struct that the stream names and leaves the others zero                 *)
(***************************************************************************)
EmptyBytes == [g |-> "empty", fields |-> <<>>]
GarbageBytes == [g |-> "garbage", fields |-> <<>>]
GobStruct(fields) == [g |-> "struct", fields |-> fields]

\* a map[string]string field of a decoded struct: nil when the stream does not name it
NilData == [isNil |-> TRUE, m |-> <<>>]
Data(m) == [isNil |-> FALSE, m |-> m]

RECURSIVE ToGob(_)
\* Atom.ToGob: the struct {ID, Type, Properties, Children} with the encoded
\* children (no bytes for a nil child); encoding an Atom does not fail
ToGob(a) ==
    GobStruct("ID" :> a.id @@ "Type" :> a.type @@ "Properties" :> Data(a.props)
              @@ "Children" :> [i \in 1..Len(a.kids) |->
                                    IF a.kids[i].isNil THEN EmptyBytes ELSE ToGob(a.kids[i])])

\* decoder.Decode(&temp) with temp struct {Data map[string]string; Children [][]byte}
DecodeDataChildren(bytes) ==
    [Data |-> IF "Data" \in DOMAIN bytes.fields THEN bytes.fields["Data"] ELSE NilData,
     Children |-> IF "Children" \in DOMAIN bytes.fields THEN bytes.fields["Children"] ELSE <<>>]

RECURSIVE IsValidAtomGob(_)
\* isValidAtomGob(data)
IsValidAtomGob(bytes) ==
    IF bytes.g # "struct" THEN FALSE
    ELSE LET temp == DecodeDataChildren(bytes)
         IN /\ ~temp.Data.isNil
            /\ MapGet(temp.Data.m, "type") # ""
            /\ ~(MapHas(temp.Data.m, "id") /\ temp.Data.m["id"] = "")
            /\ \A i \in 1..Len(temp.Children) : IsValidAtomGob(temp.Children[i])

RECURSIVE GobToAtom(_)
RECURSIVE GobToAtomChildren(_, _)
\* GobToAtom: the loop over temp.Children
GobToAtomChildren(list, kids) ==
    IF list = <<>> THEN [err |-> FALSE, kids |-> kids]
    ELSE LET c == GobToAtom(Head(list))
         IN IF c.err THEN [err |-> TRUE, kids |-> kids]
            ELSE GobToAtomChildren(Tail(list), kids \o <<c.atom>>)
\* GobToAtom(data): NewAtom(temp.Data["type"]), a Set for every entry of
\* temp.Data, a ChildAdd for every decoded child
GobToAtom(bytes) ==
    IF ~IsValidAtomGob(bytes) THEN Failed
    ELSE LET temp == DecodeDataChildren(bytes)
             atom == NewAtomVal(temp.Data.m["type"], "")
             c == GobToAtomChildren(temp.Children, <<>>)
         IN IF c.err THEN Failed
            ELSE Converted(AtomVal(atom.id, atom.type, temp.Data.m, c.kids))

RECURSIVE FromGob(_)
RECURSIVE FromGobChildren(_, _)
\* FromGob: the loop over temp.Children: a.children starts as a list of nils
\* and gets a child for every entry decoded before the first error
FromGobChildren(list, kids) ==
    IF list = <<>> THEN [err |-> FALSE, kids |-> kids]
    ELSE LET c == FromGob(Head(list))
         IN IF c.err THEN [err |-> TRUE, kids |-> kids \o [n \in 1..Len(list) |-> NoAtom]]
            ELSE FromGobChildren(Tail(list), kids \o <<c.atom>>)
\* (&Atom{}).FromGob(data): the error returned and the atom afterwards
FromGob(bytes) ==
    IF bytes.g # "struct" THEN [err |-> TRUE, atom |-> AtomVal("", "", EmptyMap, <<>>)]
    ELSE LET f == bytes.fields
             c == FromGobChildren(IF "Children" \in DOMAIN f THEN f["Children"] ELSE <<>>, <<>>)
         IN [err |-> c.err,
             atom |-> AtomVal(IF "ID" \in DOMAIN f THEN f["ID"] ELSE "",
                              IF "Type" \in DOMAIN f THEN f["Type"] ELSE "",
                              IF "Properties" \in DOMAIN f /\ ~f["Properties"].isNil
                              THEN f["Properties"].m ELSE EmptyMap,
                              c.kids)]

\* var q Atom; q.GobDecode(a.GobEncode())
OpFromGobRoundTrip ==
    /\ input.kind = "atom"
    /\ PureCall("FromGobRoundTrip", <<>>, FromGob(ToGob(input.atom)))

\* GobToAtom(N.ToGob())
OpGobRoundTrip ==
    /\ input.kind = "atom"
    /\ PureCall("GobRoundTrip", <<>>, GobToAtom(ToGob(input.atom)))

\* GobToAtom applied to data
OpGobToAtom ==
    /\ input.kind = "gob"
    /\ PureCall("GobToAtom", <<>>, GobToAtom(input.bytes))

(***************************************************************************)
(* The conversions applied to atoms, maps, texts and data                  *)
(***************************************************************************)
\* the atoms callers convert: leaves, a child with two children of its own,
\* a child without a type and a nil child, under a root whose id and type
\* may be empty and whose properties may hold the keys id and type
LeafC == AtomVal("c", "b", "k2" :> "v1", <<>>)
LeafD == AtomVal("d", "a", EmptyMap, <<>>)
MidM == AtomVal("m", "a", "k1" :> "v1", <<LeafC, LeafD>>)
MidN == AtomVal("n", "", EmptyMap, <<LeafC>>)
AtomProps == {EmptyMap, "k1" :> "v1", "k1" :> "v1" @@ "k2" :> "", "k1" :> "v1" @@ "id" :> "p", "type" :> "q"}
AtomKids == {<<>>, <<LeafD>>, <<MidM, LeafD>>, <<LeafD, MidM>>, <<MidN>>, <<NoAtom, MidM>>}
AtomInputs ==
    {[kind |-> "atom", atom |-> AtomVal(i, t, p, k)] :
        i \in {"x", ""}, t \in {"a", ""}, p \in AtomProps, k \in AtomKids}

\* the texts callers hand to JSONToAtoms
JSONInputs ==
    {[kind |-> "json", doc |-> d] :
        d \in {JEmptyText, JString(""), JString("abc"), JNull, JMalformed, JMalformedQuoted,
               JNumber(1), JArray(<<>>), JArray(<<JNumber(1)>>),
               JObject("id" :> JString("x") @@ "type" :> JString("a")),
               JObject("type" :> JString("a")),
               JObject("id" :> JString("x")),
               JObject("type" :> JString("a") @@ "properties" :> JObject("k1" :> JString("id"))),
               JArray(<<JObject("id" :> JString("x") @@ "type" :> JString("a")),
                        JObject("id" :> JString("c") @@ "type" :> JString("b"))>>),
               JArray(<<JObject("id" :> JString("x") @@ "type" :> JString("a")),
                        JObject("type" :> JString("b"))>>),
               JArray(<<JObject("id" :> JString("x") @@ "type" :> JString("a")),
                        JObject("id" :> JString("c"))>>),
               JArray(<<JNull, JObject("id" :> JString("x") @@ "type" :> JString("a"))>>),
               JPadded(JObject("id" :> JString("x") @@ "type" :> JString("a")))}}

\* the data callers hand to GobToAtom
GobInputsData ==
    {[kind |-> "gob", bytes |-> b] :
        b \in {EmptyBytes, GarbageBytes,
               GobStruct("Data" :> Data("type" :> "a" @@ "id" :> "x" @@ "k1" :> "v1")),
               GobStruct("Data" :> Data("type" :> "a")
                         @@ "Children" :> <<GobStruct("Data" :> Data("type" :> "b" @@ "id" :> "c"))>>),
               GobStruct("Data" :> Data("id" :> "x")),
               GobStruct("Data" :> Data("type" :> "a" @@ "id" :> "")),
               GobStruct("Data" :> Data("type" :> "a") @@ "Children" :> <<EmptyBytes>>)}}

(***************************************************************************)
(* MapToAtoms and the validation it applies                                *)
(***************************************************************************)
\* the dynamic types isValidAtomMap takes for a property value
StringableTypes == {"string", "int", "float64", "bool"}

RECURSIVE IsValidAtomMap(_)
\* isValidAtomMap(atomMap), atomMap nil or a map[string]any
IsValidAtomMap(atomMap) ==
    IF atomMap.t = "nil" THEN FALSE
    ELSE LET m == atomMap.v
         IN /\ AsString(m, "id") # ""
            /\ AsString(m, "type") # ""
            /\ DOMAIN m \subseteq TopLevelKeys
            /\ ("properties" \in DOMAIN m /\ m["properties"].t # "nil") =>
                  /\ m["properties"].t = "map[string]any"
                  /\ \A k \in DOMAIN m["properties"].v :
                        m["properties"].v[k].t \in StringableTypes
            /\ ("children" \in DOMAIN m /\ m["children"].t # "nil") =>
                  /\ m["children"].t = "[]any"
                  /\ \A n \in 1..Len(m["children"].v) :
                        \/ m["children"].v[n].t = "nil"
                        \/ /\ m["children"].v[n].t = "map[string]any"
                           /\ IsValidAtomMap(m["children"].v[n])

\* MapToAtoms if it did not validate the maps
MapToAtomsLoop_unvalidated(list) ==
    [n \in 1..Len(list) |->
        IF list[n].t = "nil" \/ MapToAtom(list[n]).err THEN NoAtom ELSE MapToAtom(list[n]).atom]

RECURSIVE MapToAtomsLoop(_)
\* MapToAtoms: the loop: nil for a nil map, nothing for a map that is not
\* valid, else what NewAtomFromMap returns, its error ignored
MapToAtomsLoop(list) ==
    IF list = <<>> THEN <<>>
    ELSE (IF Head(list).t = "nil" THEN <<NoAtom>>
          ELSE IF ~IsValidAtomMap(Head(list)) THEN <<>>
          ELSE <<MapToAtom(Head(list)).atom>>) \o MapToAtomsLoop(Tail(list))

\* MapToAtoms(atoms), atoms a []map[string]any, nil or not
MapToAtoms(maps_) ==
    IF maps_.isNil THEN NilAtoms ELSE Atoms(MapToAtomsLoop(maps_.list))

OpMapToAtoms ==
    /\ input.kind = "maps"
    /\ PureCall("MapToAtoms", <<>>, MapToAtoms(input.maps))

\* the lists of maps callers hand to MapToAtoms
MapX == AnyMap("id" :> AnyString("x") @@ "type" :> AnyString("a"))
MapC == AnyMap("id" :> AnyString("c") @@ "type" :> AnyString("b")
               @@ "properties" :> AnyMap("k1" :> AnyString("v1"))
               @@ "children" :> AnyList(<<MapX>>))
MapEmptyId == AnyMap("id" :> AnyString("") @@ "type" :> AnyString("bad"))
MapNoId == AnyMap("type" :> AnyString("missingId"))
MapNoType == AnyMap("id" :> AnyString("missingType"))
MapBogus == AnyMap("id" :> AnyString("y") @@ "type" :> AnyString("a") @@ "bogusKey" :> AnyInt(1))
MapBadChild == AnyMap("id" :> AnyString("y") @@ "type" :> AnyString("a")
                      @@ "children" :> AnyList(<<MapX, MapNoType>>))
MapListElems == {AnyNil, MapX, MapC, MapEmptyId, MapNoId, MapNoType, MapBogus, MapBadChild}
MapListInputs ==
    {[kind |-> "maps", maps |-> l] :
        l \in {[isNil |-> TRUE, list |-> <<>>], [isNil |-> FALSE, list |-> <<>>],
               [isNil |-> FALSE, list |-> <<MapC, AnyNil, MapEmptyId, MapNoId, MapX>>]}
              \cup {[isNil |-> FALSE, list |-> <<a, b>>] : a, b \in MapListElems}}

(***************************************************************************)
(* Lists of atoms as gob data: what AtomsToGob writes and GobToAtoms reads  *)
(* is a sequence of values, each an encoded int, an encoded bool, or an    *)
(* encoded length followed by the bytes of one atom                        *)
(***************************************************************************)
IntTok(n) == [t |-> "int", v |-> n]
BoolTok(b) == [t |-> "bool", v |-> b]
\* complete is FALSE when fewer bytes follow the length than it announces
DataTok(bytes, complete) == [t |-> "data", v |-> [bytes |-> bytes, complete |-> complete]]
\* bytes that are not a gob stream
GarbageTok == [t |-> "garbage", v |-> <<>>]

RECURSIVE AtomsToGobLoop(_)
\* AtomsToGob: the loop: a false marker for a nil atom, else a true marker,
\* the length of atom.ToGob() and these bytes
AtomsToGobLoop(l) ==
    IF l = <<>> THEN <<>>
    ELSE (IF Head(l).isNil THEN <<BoolTok(FALSE)>>
          ELSE <<BoolTok(TRUE), DataTok(ToGob(Head(l)), TRUE)>>) \o AtomsToGobLoop(Tail(l))

\* AtomsToGob(atoms): no bytes for a nil or empty list, else the count and the elements
AtomsToGob(atoms) ==
    IF Len(atoms.list) = 0 THEN <<>>
    ELSE <<IntTok(Len(atoms.list))>> \o AtomsToGobLoop(atoms.list)

RECURSIVE GobToAtomsLoop(_, _, _)
\* GobToAtoms: the loop for i < count
GobToAtomsLoop(stream, count, result) ==
    IF count = 0 THEN ConvertedList(result)
    ELSE IF stream = <<>> \/ Head(stream).t # "bool" THEN FailedList
    ELSE IF ~Head(stream).v THEN GobToAtomsLoop(Tail(stream), count - 1, result \o <<NoAtom>>)
    ELSE IF Tail(stream) = <<>> \/ Head(Tail(stream)).t # "data" THEN FailedList
    ELSE IF ~Head(Tail(stream)).v.complete THEN FailedList
    ELSE LET a == GobToAtom(Head(Tail(stream)).v.bytes)
         IN IF a.err THEN FailedList
            ELSE GobToAtomsLoop(Tail(Tail(stream)), count - 1, result \o <<a.atom>>)

\* GobToAtoms(data)
GobToAtoms(stream) ==
    IF stream = <<>> THEN ConvertedList(<<>>)
    ELSE IF Head(stream).t # "int" THEN FailedList
    ELSE IF Head(stream).v < 0 THEN FailedList
    ELSE GobToAtomsLoop(Tail(stream), Head(stream).v, <<>>)

\* GobToAtoms(AtomsToGob(L))
OpGobListRoundTrip ==
    /\ input.kind = "atoms"
    /\ PureCall("GobListRoundTrip", <<>>, GobToAtoms(AtomsToGob(input.atoms)))

\* GobToAtoms applied to data
OpGobToAtoms ==
    /\ input.kind = "stream"
    /\ PureCall("GobToAtoms", <<>>, GobToAtoms(input.stream))

\* AtomsToJSON(atoms): the text and the error returned
OpAtomsToJSON ==
    /\ input.kind = "atoms"
    /\ PureCall("AtomsToJSON", <<>>, [err |-> FALSE, text |-> AtomsToJSON(input.atoms)])

\* the lists callers convert
RootX == AtomVal("x", "a", "k1" :> "v1", <<MidM, LeafD>>)
ListInputs ==
    {[kind |-> "atoms", atoms |-> l] :
        l \in {NilAtoms, Atoms(<<>>), Atoms(<<NoAtom>>), Atoms(<<NoAtom, NoAtom>>),
               Atoms(<<LeafD>>), Atoms(<<RootX, NoAtom, LeafC>>), Atoms(<<NoAtom, RootX>>)}}

\* the data callers hand to GobToAtoms: data in the layout GobToAtom reads,
\* whole, cut short, with a later element that is not an atom, and other bytes
DataX == GobStruct("Data" :> Data("type" :> "a" @@ "id" :> "x"))
DataBadChild == GobStruct("Data" :> Data("type" :> "a") @@ "Children" :> <<DataX, GarbageBytes>>)
StreamInputs ==
    {[kind |-> "stream", stream |-> st] :
        st \in {<<>>, <<GarbageTok>>, <<IntTok(-1)>>, <<BoolTok(TRUE)>>,
                <<IntTok(2), BoolTok(TRUE), DataTok(DataX, TRUE), BoolTok(FALSE)>>,
                <<IntTok(2), BoolTok(TRUE), DataTok(DataX, TRUE)>>,
                <<IntTok(2), BoolTok(FALSE), BoolTok(TRUE), DataTok(DataX, FALSE)>>,
                <<IntTok(2), BoolTok(TRUE), DataTok(DataX, TRUE), BoolTok(TRUE), DataTok(GarbageBytes, TRUE)>>,
                <<IntTok(2), BoolTok(TRUE), DataTok(DataX, TRUE), BoolTok(TRUE), DataTok(DataBadChild, TRUE)>>,
                <<IntTok(1), BoolTok(TRUE), IntTok(1)>>}}

\* C21: for a non-empty list L of atoms, nil entries included,
\* GobToAtoms(AtomsToGob(L)) returns without error the list with nil where L
\* has nil and elsewhere an atom with the id, type, properties and children
\* of L's; for a nil or empty L it returns the empty list.
C21_GobListRoundTrip ==
    (last.op = "GobListRoundTrip")
    => /\ ~last.ret.err
       /\ last.ret.atoms = input.atoms.list

(***************************************************************************)
(* The operations of one atom side by side: the mutators, SetID and        *)
(* SetType, and the operations that only read                              *)
(***************************************************************************)
\* a.id = id: the id and the contents of the property map afterwards
SetIDFields_asProperty(props, i) == [id |-> i, props |-> MapPut(props, "id", i)]
SetIDFields(props, i) == [id |-> i, props |-> props]

\* a.SetID(id)
OpSetID(i) ==
    /\ ~panicked
    /\ LET f == SetIDFields(IF properties = NilMap THEN EmptyMap ELSE maps[properties], i)
       IN /\ id' = f.id
          /\ maps' = IF properties = NilMap THEN maps ELSE [maps EXCEPT ![properties] = f.props]
    /\ last' = Call("SetID", <<i>>, <<>>)
    /\ UNCHANGED <<atomType, properties, children, arrs, cm, got, cl, gotl, panicked>>
    /\ UNCHANGED <<threadVars, input, treeVars>>

\* a.SetType(atomType)
OpSetType(t) ==
    /\ ~panicked
    /\ atomType' = t
    /\ last' = Call("SetType", <<t>>, <<>>)
    /\ UNCHANGED <<id, properties, children, maps, arrs, cm, got, cl, gotl, panicked>>
    /\ UNCHANGED <<threadVars, input, treeVars>>

\* the atom and its children as a value, for ToMap and ToGob
KidVal(c) ==
    IF c = NilAtom THEN NoAtom
    ELSE AtomVal(KidID(c), KidType(c), EmptyMap,
                 [n \in 1..Len(KidChildren(c)) |->
                     AtomVal(KidID(KidChildren(c)[n]), KidType(KidChildren(c)[n]), EmptyMap, <<>>)])
HeapAtomVal ==
    AtomVal(id, atomType, IF properties = NilMap THEN EmptyMap ELSE maps[properties],
            [n \in 1..children.len |-> KidVal(SliceElems(arrs, children)[n])])
\* the atom (node 9) and its children as a tree, for the search functions
HeapTree ==
    [root |-> 9,
     kids |-> (9 :> SliceElems(arrs, children)) @@ [c \in 1..4 |-> KidChildren(c)],
     lab |-> (9 :> [id |-> id, type |-> atomType]) @@ [c \in 1..4 |-> [id |-> KidID(c), type |-> KidType(c)]]]

\* a.ToMap(), a.ToGob() and the searches with the atom as root
OpReadTree(which) ==
    /\ ~panicked
    /\ input.kind = "none"
    /\ PureCall(which, <<>>,
                CASE which = "ToMap" -> ToMap(HeapAtomVal)
                  [] which = "ToGob" -> ToGob(HeapAtomVal)
                  [] which = "FindAtomByID" -> <<FindAtomByID(HeapTree, 9, "x")>>
                  [] which = "FindFirstAtomByType" -> <<FindFirstAtomByType(HeapTree, 9, "a")>>
                  [] which = "FindAtomsByType" -> FindAtomsByType(HeapTree, 9, "a"))

\* the keys of the calls; the caller builds one map, and keeps the first map
\* GetAll and the first list ChildrenGet return
FrameKeys == {"id", "type"}
NextFrame ==
    \/ \E k \in FrameKeys, v \in Val1 : OpSet(k, v)
    \/ \E k \in FrameKeys : OpRemove(k)
    \/ \E w \in {"cm", "nil"} : OpSetAll(w)
    \/ cm = NilMap /\ CallerNewMap("id" :> "v1")
    \/ \E c \in {1} : children.len < MaxTogether /\ OpChildAdd(c)
    \/ \E w \in {"gotl"} : children.len + ArgList(w).len <= MaxTogether /\ OpChildrenAdd(w)
    \/ \E w \in {"gotl"} : OpChildrenSet(w)
    \/ OpChildDeleteByID("x")
    \/ \E i \in {"other"} : OpSetID(i)
    \/ \E t \in {"a"} : OpSetType(t)
    \/ \E k \in {"id"} : OpGet(k)
    \/ \E k \in {"type"} : OpHas(k)
    \/ got = NilMap /\ OpGetAll
    \/ gotl = NilSlice /\ OpChildrenGet
    \/ OpChildrenLength
    \/ OpChildFindByID("x")
    \/ OpChildrenFindByType("a")
    \/ \E w \in {"ToMap", "ToGob", "FindAtomByID", "FindFirstAtomByType", "FindAtomsByType"} : OpReadTree(w)

SpecFrame == Init /\ [][NextFrame]_vars

(***************************************************************************)
(* NewAtom and its options                                                 *)
(***************************************************************************)
\* an option: which one, and its string, map or list of children
WithID(i) == [o |-> "WithID", s |-> i, m |-> EmptyMap, l |-> <<>>]
WithType(t) == [o |-> "WithType", s |-> t, m |-> EmptyMap, l |-> <<>>]
WithData(data) == [o |-> "WithData", s |-> "", m |-> data, l |-> <<>>]
WithProperties(props) == [o |-> "WithProperties", s |-> "", m |-> props, l |-> <<>>]
WithChildren(list) == [o |-> "WithChildren", s |-> "", m |-> EmptyMap, l |-> list]

\* for k, v := range m { a.properties[k] = v } for the keys other than id and type
PutOthers(props, m) ==
    [k \in (DOMAIN props) \cup ((DOMAIN m) \ {"id", "type"}) |->
        IF k \in DOMAIN m THEN m[k] ELSE props[k]]

\* opt(atom)
ApplyOption(a, opt) ==
    CASE opt.o = "WithID" -> [a EXCEPT !.id = opt.s]
      [] opt.o = "WithType" -> [a EXCEPT !.type = opt.s]
      [] opt.o = "WithData" ->
            [a EXCEPT !.id = IF "id" \in DOMAIN opt.m THEN opt.m["id"] ELSE @,
                      !.type = IF "type" \in DOMAIN opt.m THEN opt.m["type"] ELSE @,
                      !.props = PutOthers(@, opt.m)]
      [] opt.o = "WithProperties" -> [a EXCEPT !.props = PutOthers(@, opt.m)]
      [] opt.o = "WithChildren" -> [a EXCEPT !.kids = @ \o opt.l]

RECURSIVE ApplyOptions(_, _)
\* for _, opt := range opts { opt(atom) }
ApplyOptions(a, opts) ==
    IF opts = <<>> THEN a ELSE ApplyOptions(ApplyOption(a, Head(opts)), Tail(opts))

\* NewAtom if it generated no id
NewAtom_noGenerate(t, opts) == ApplyOptions(AtomVal("", t, EmptyMap, <<>>), opts)
\* NewAtom(atomType, opts...)
NewAtom(t, opts) ==
    LET a == ApplyOptions(AtomVal("", t, EmptyMap, <<>>), opts)
    IN IF a.id = "" THEN [a EXCEPT !.id = GeneratedID] ELSE a

\* a caller makes an atom with these options
OpNewAtom ==
    /\ input.kind = "new"
    /\ PureCall("NewAtomWith", <<>>, NewAtom(input.typ, input.opts))

\* the options callers pass, none, one or two of them
Options ==
    {WithID("x"), WithID(""), WithType("b"), WithType(""),
     WithData("id" :> "p"), WithData("id" :> "" @@ "k1" :> "v1"),
     WithData("type" :> "q" @@ "k2" :> "v1"),
     WithProperties("k1" :> "v1" @@ "id" :> "z"),
     WithChildren(<<AtomVal("d", "a", EmptyMap, <<>>)>>), WithChildren(<<NoAtom>>)}
NewInputs ==
    {[kind |-> "new", typ |-> t, opts |-> os] :
        t \in {"a", ""}, os \in {<<>>} \cup {<<o1>> : o1 \in Options} \cup (Options \X Options)}

(***************************************************************************)
(* MemoryUsage                                                             *)
(***************************************************************************)
RECURSIVE SumLens(_, _)
\* for k, v := range a.properties { size += len(k) + len(v) }
SumLens(props, keys) ==
    IF keys = {} THEN 0
    ELSE LET k == CHOOSE x \in keys : TRUE
         IN Len(k) + Len(props[k]) + SumLens(props, keys \ {k})

\* a.MemoryUsage(): the map header and the key and value pointers, the bytes
\* of the keys and values, the slice header and interface pointers, the mutex
MemoryUsage(a) ==
    8 + Cardinality(DOMAIN a.props) * (8 + 8) + SumLens(a.props, DOMAIN a.props)
      + 8 + (Len(a.kids) * 8) + 24

\* the atom after the caller has added data to it or below it: a new
\* property, a new child, or a new property of its first child
Grown(a, change) ==
    CASE change = "Set" -> [a EXCEPT !.props = MapPut(@, "added", "xxxx")]
      [] change = "ChildAdd" -> [a EXCEPT !.kids = Append(@, AtomVal("new", "a", EmptyMap, <<>>))]
      [] change = "SetOfChild" -> [a EXCEPT !.kids[1].props = MapPut(@, "added", "xxxx")]

\* MemoryUsage before and after the caller adds data
OpMemoryUsage ==
    /\ input.kind = "atom"
    /\ \E change \in {"Set", "ChildAdd", "SetOfChild"} :
          /\ (change = "SetOfChild") => (input.atom.kids # <<>> /\ ~input.atom.kids[1].isNil)
          /\ PureCall("MemoryUsage", <<change>>,
                      [before |-> MemoryUsage(input.atom),
                       after |-> MemoryUsage(Grown(input.atom, change))])

InitConv ==
    /\ InitAtom
    /\ input \in MapInputs \cup AtomInputs \cup JSONInputs \cup GobInputsData
                    \cup ListInputs \cup StreamInputs \cup MapListInputs \cup NewInputs
    /\ NoTree

NextConv ==
    \/ OpMapToAtom
    \/ OpToMap
    \/ OpToMapToAtom
    \/ OpJSONRoundTrip
    \/ OpJSONToAtoms
    \/ OpGobRoundTrip
    \/ OpGobToAtom
    \/ OpGobListRoundTrip
    \/ OpGobToAtoms
    \/ OpMapToAtoms
    \/ OpAtomsToJSON
    \/ OpNewAtom
    \/ OpJSONToAtomBoth
    \/ OpFromGobRoundTrip
    \/ OpMemoryUsage
    \/ \E d \in GobInputs : OpFromGob(d)

SpecConv == InitConv /\ [][NextConv]_vars

(***************************************************************************)
(* Round trips                                                             *)
(***************************************************************************)
\* the atom has children and one of them has children of its own
TwoLevel(a) == \E n \in 1..Len(a.kids) : ~a.kids[n].isNil /\ a.kids[n].kids # <<>>
\* the atoms the round-trip statements are about
HasPropsAndTwoLevels(a) == a.props # EmptyMap /\ TwoLevel(a)

RECURSIVE SameTree(_, _)
\* the same id and type, and the same ids and types of the children in the
\* same order, at every level
SameTree(a, b) ==
    /\ a.id = b.id
    /\ a.type = b.type
    /\ Len(a.kids) = Len(b.kids)
    /\ \A n \in 1..Len(a.kids) :
          /\ ~a.kids[n].isNil
          /\ ~b.kids[n].isNil
          /\ SameTree(a.kids[n], b.kids[n])

\* C18: for an atom with properties and a two-level child tree, MapToAtom
\* applied to the map ToMap returns succeeds and gives an atom with the same
\* id, type and properties and the same child ids, types and order.
C18_ToMapRoundTrip ==
    (last.op = "ToMapToAtom" /\ HasPropsAndTwoLevels(input.atom))
    => /\ ~last.ret.err
       /\ last.ret.atom.props = input.atom.props
       /\ SameTree(last.ret.atom, input.atom)

RECURSIVE WellFormed(_)
\* every atom of the tree has an id and a type, no property under the keys
\* id and type, and no nil child
WellFormed(a) ==
    /\ a.id # ""
    /\ a.type # ""
    /\ (DOMAIN a.props) \cap ReservedKeys = {}
    /\ \A n \in 1..Len(a.kids) : ~a.kids[n].isNil /\ WellFormed(a.kids[n])

\* C19 as the specification states it: for an atom N with properties and a
\* two-level child tree, JSONToAtoms(AtomsToJSON([N])) returns the list of
\* one atom that has the id, type, properties and children of N.
C19_JSONRoundTrip ==
    (last.op = "JSONRoundTrip" /\ HasPropsAndTwoLevels(input.atom))
    => last.ret = ConvertedList(<<input.atom>>)

\* C19: for an atom N with properties and a two-level child tree in which
\* every atom has a non-empty id and type and no property keyed id or type,
\* JSONToAtoms(AtomsToJSON([N])) returns the list of one atom that has the
\* id, type, properties and children of N, recursively and in order.
C19_JSONRoundTripWellFormed ==
    (last.op = "JSONRoundTrip" /\ HasPropsAndTwoLevels(input.atom) /\ WellFormed(input.atom))
    => last.ret = ConvertedList(<<input.atom>>)

\* the round trip of the atom x with a property and the children m (which
\* has the children c and d) and d has given that atom back
C19_Witness ==
    /\ last.op = "JSONRoundTrip"
    /\ input.atom = AtomVal("x", "a", "k1" :> "v1" @@ "k2" :> "", <<MidM, LeafD>>)
    /\ last.ret = ConvertedList(<<input.atom>>)

\* C20: for an atom with properties and a two-level child tree,
\* GobToAtom(N.ToGob()) succeeds and returns an atom with the id, type,
\* properties and children of N.
C20_GobRoundTrip ==
    (last.op = "GobRoundTrip" /\ HasPropsAndTwoLevels(input.atom))
    => last.ret = Converted(input.atom)

(***************************************************************************)
(* The map of an atom                                                      *)
(***************************************************************************)
\* the children that are not nil, in order
NonNil(kids) == SelectSeq(kids, LAMBDA c : ~c.isNil)

RECURSIVE IsMapOf(_, _)
\* m has the keys id, type and children and no others but properties; the
\* children are the maps of the atom's children in order; properties is
\* there exactly when the atom has a property other than id and type, and
\* holds these properties only
IsMapOf(m, a) ==
    LET own == (DOMAIN a.props) \ ReservedKeys
        kids == NonNil(a.kids)
    IN /\ {"id", "type", "children"} \subseteq DOMAIN m
       /\ DOMAIN m \subseteq {"id", "type", "children", "properties"}
       /\ m["id"] = AnyString(a.id)
       /\ m["type"] = AnyString(a.type)
       /\ m["children"].t = "[]map[string]any"
       /\ Len(m["children"].v) = Len(kids)
       /\ \A n \in 1..Len(kids) : IsMapOf(m["children"].v[n], kids[n])
       /\ ("properties" \in DOMAIN m) <=> (own # {})
       /\ "properties" \in DOMAIN m =>
             /\ DOMAIN m["properties"].v = own
             /\ \A k \in own : m["properties"].v[k] = a.props[k]

\* C22: ToMap(a) has the keys id, type and children, children being the list
\* of the converted children in order (empty when there are none); it has
\* the key properties exactly when the atom has a property other than id and
\* type, and these properties never hold the keys id and type.
C22_ToMapShape ==
    (last.op = "ToMap") => IsMapOf(last.ret.v, input.atom)

\* the map of an atom with the properties k1 and id and two levels of children
C22_Witness ==
    /\ last.op = "ToMap"
    /\ input.atom = AtomVal("x", "a", "k1" :> "v1" @@ "id" :> "p", <<MidM, LeafD>>)
    /\ last.ret.v["properties"] = AnyStringMap("k1" :> "v1")
    /\ Len(last.ret.v["children"].v) = 2
    /\ Len(last.ret.v["children"].v[1]["children"].v) = 2

(***************************************************************************)
(* What JSONToAtoms accepts and rejects                                    *)
(***************************************************************************)
\* the object has no id or no type
LacksIdOrType(obj) == "id" \notin DOMAIN obj.v \/ "type" \notin DOMAIN obj.v
\* the object has an id and a type that are non-empty strings, and nothing else
PlainAtomObject(obj) ==
    /\ obj.t = "object"
    /\ DOMAIN obj.v = {"id", "type"}
    /\ \A k \in DOMAIN obj.v : obj.v[k].t = "string" /\ obj.v[k].v # ""

\* C23: JSONToAtoms accepts a single object and an array of objects,
\* returns the empty list without error for a quoted string literal, and
\* returns an error and no atoms for malformed text, for null and other
\* values that are neither object nor array, and for a top-level object or
\* an array element that has no id or no type.
C23_JSONToAtomsAcceptsAndRejects ==
    (last.op = "JSONToAtoms") =>
        LET d == input.doc
        IN /\ PlainAtomObject(d) => (~last.ret.err /\ Len(last.ret.atoms) = 1)
           /\ (d.t = "array" /\ \A n \in 1..Len(d.v) : PlainAtomObject(d.v[n]))
                 => (~last.ret.err /\ Len(last.ret.atoms) = Len(d.v))
           /\ d.t = "string" => last.ret = ConvertedList(<<>>)
           /\ d.t \in {"malformed", "malformedQuoted", "null", "number"} => last.ret = FailedList
           /\ (d.t = "object" /\ LacksIdOrType(d)) => last.ret = FailedList
           /\ (d.t = "array" /\ \E n \in 1..Len(d.v) : d.v[n].t = "object" /\ LacksIdOrType(d.v[n]))
                 => last.ret = FailedList

(***************************************************************************)
(* What MapToAtoms keeps                                                   *)
(***************************************************************************)
RECURSIVE PassesValidation(_)
\* the map passes validation as the statement has it: an id and a type that
\* are non-empty strings, no top-level key besides id, type, properties and
\* children, properties a map and children a list of maps that pass
PassesValidation(m) ==
    /\ m.t = "map[string]any"
    /\ NonEmptyString(m.v, "id")
    /\ NonEmptyString(m.v, "type")
    /\ DOMAIN m.v \subseteq TopLevelKeys
    /\ "properties" \in DOMAIN m.v => m.v["properties"].t = "map[string]any"
    /\ "children" \in DOMAIN m.v =>
          /\ m.v["children"].t = "[]any"
          /\ \A n \in 1..Len(m.v["children"].v) : PassesValidation(m.v["children"].v[n])

\* the positions of the list that are nil or pass validation, in order
Kept(list) == SelectSeq([n \in 1..Len(list) |-> n],
                        LAMBDA n : list[n].t = "nil" \/ PassesValidation(list[n]))

\* C25: MapToAtoms returns nil for a nil list; otherwise it returns, in the
\* order of the list, nil for every nil map and the converted atom for every
\* valid map, and leaves out the maps that fail validation, without error.
C25_MapToAtomsKeepsValid ==
    (last.op = "MapToAtoms") =>
        IF input.maps.isNil THEN last.ret.isNil
        ELSE LET list == input.maps.list
                 kept == Kept(list)
             IN /\ ~last.ret.isNil
                /\ Len(last.ret.list) = Len(kept)
                /\ \A n \in 1..Len(kept) :
                      IF list[kept[n]].t = "nil" THEN last.ret.list[n].isNil
                      ELSE /\ ~last.ret.list[n].isNil
                           /\ last.ret.list[n].id = list[kept[n]].v["id"].v
                           /\ last.ret.list[n].type = list[kept[n]].v["type"].v

\* the list of TestMapToAtoms_SkipsInvalidAndPreservesNil has given three entries
C25_Witness ==
    /\ last.op = "MapToAtoms"
    /\ input.maps.list = <<MapC, AnyNil, MapEmptyId, MapNoId, MapX>>
    /\ Len(last.ret.list) = 3
    /\ last.ret.list[2].isNil
    /\ last.ret.list[3].id = "x"

(***************************************************************************)
(* Validation errors reach the caller                                      *)
(***************************************************************************)
\* the call has returned an error
Reported(ret) == "err" \in DOMAIN ret /\ ret.err

\* C24: a conversion that meets a validation error (an id or type that is
\* missing or empty, properties or children of the wrong shape, another
\* top-level key, malformed text or data) returns an error; no invalid map,
\* child or list element is left out or repaired without one.
C24_ValidationErrorsReported ==
    /\ (last.op = "MapToAtom" /\ ~PassesValidation(input.arg)) => Reported(last.ret)
    /\ (last.op = "MapToAtoms"
          /\ \E n \in 1..Len(input.maps.list) :
                input.maps.list[n].t # "nil" /\ ~PassesValidation(input.maps.list[n]))
       => Reported(last.ret)
    /\ (last.op = "JSONToAtoms"
          /\ \/ input.doc.t \in {"malformed", "malformedQuoted"}
             \/ input.doc.t = "object" /\ ~PassesValidation(Unmarshal(input.doc))
             \/ /\ input.doc.t = "array"
                /\ \E n \in 1..Len(input.doc.v) :
                      input.doc.v[n].t = "object" /\ ~PassesValidation(Unmarshal(input.doc.v[n])))
       => Reported(last.ret)
    /\ (last.op = "GobToAtom" /\ input.bytes.g # "struct") => Reported(last.ret)
    /\ (last.op = "GobToAtoms" /\ input.stream # <<>> /\ input.stream[1].t # "int")
       => Reported(last.ret)

(***************************************************************************)
(* Failed decodes                                                          *)
(***************************************************************************)
\* the functions that return one atom and those that return a list
OneAtomOps == {"MapToAtom", "ToMapToAtom", "GobToAtom", "GobRoundTrip"}
ListOps == {"JSONToAtoms", "JSONRoundTrip", "GobToAtoms", "GobListRoundTrip"}

\* a function that has returned an error has returned no atom with it
NoAtomsWithError ==
    /\ (last.op \in OneAtomOps /\ last.ret.err) => last.ret.atom = NoAtom
    /\ (last.op \in ListOps /\ last.ret.err) => last.ret.atoms = <<>>

\* a FromGob that returns an error leaves the atom as it was
FailedFromGobKeepsAtom ==
    (last'.op = "FromGob" /\ last'.ret = "error")
    => /\ id' = id
       /\ atomType' = atomType
       /\ GetAllContent' = GetAllContent
       /\ ChildrenGetContent' = ChildrenGetContent

\* C26: a decode that fails leaves no partial result: GobToAtoms, GobToAtom,
\* JSONToAtoms and MapToAtom return no atoms with the error, and a failed
\* a.FromGob(data) leaves a's id, type, properties and children as they were.
C26_NoPartialResult == []NoAtomsWithError /\ [][FailedFromGobKeepsAtom]_vars

(***************************************************************************)
(* A tree of atoms shared by threads. Every atom has its own mu; a method  *)
(* that calls a method of a child takes the child's mu inside its own      *)
(***************************************************************************)
\* the atoms: 1 and 2 are roots that both hold 3 as a child, 4 and 5 are the
\* children of 3; atom 5 + t is the one thread t adds
TreeNodes == 1..(5 + NThreads)
NodeID(n) == IF n <= 5 THEN <<"r1", "r2", "c3", "c4", "c5">>[n] ELSE "new"
NodeType(n) == IF n <= 5 THEN <<"a", "a", "b", "a", "b">>[n] ELSE "a"
InitKids == [n \in TreeNodes |-> CASE n = 1 -> <<3>> [] n = 2 -> <<3>> [] n = 3 -> <<4, 5>> [] OTHER -> <<>>]

\* sync.RWMutex: w is the thread that has called Lock (0 for none), held
\* whether it has the lock, r the threads that have the read lock. RLock
\* waits while a writer has or awaits the lock, Lock while readers remain
LockFree == [w |-> 0, held |-> FALSE, r |-> {}]
\* RLock if it did not wait for the writer
CanRLockNode_always(m) == TRUE
CanRLockNode(m) == m.w = 0
RLocked(m, t) == [m EXCEPT !.r = @ \cup {t}]
\* RUnlock if it were left out
RUnlocked_leaked(m, t) == m
RUnlocked(m, t) == [m EXCEPT !.r = @ \ {t}]

\* the functions that search a tree, and the methods that convert one
FindOps == {"FindAtomsByType", "FindAtomByID", "FindFirstAtomByType"}
WalkOps == {"ToMap", "ToGob"}

\* where a call starts: the mutators at a.mu.Lock(), the searches at their
\* first call on the root, the other methods at a.mu.RLock()
StartPC(op) ==
    IF op \in {"ChildDeleteByID", "ChildAdd", "ChildrenSet"} THEN "lock"
    ELSE IF op \in FindOps THEN "self" ELSE "rlock"

\* a call of op on atom n with its arguments
NewFrame(op, n, fid, typ, child) ==
    [op |-> op, node |-> n, id |-> fid, typ |-> typ, child |-> child,
     pc |-> StartPC(op), i |-> 1, list |-> <<>>, res |-> <<>>]

\* the calls thread t may make
Menu(t) ==
    CASE t % 3 = 1 -> {NewFrame("ToMap", 1, "", "", 0),
                       NewFrame("FindAtomsByType", 1, "", "a", 0),
                       NewFrame("FindAtomsByType", 1, "", "b", 0),
                       NewFrame("ChildFindByID", 1, "c3", "", 0),
                       NewFrame("FindAtomByID", 1, "c4", "", 0),
                       NewFrame("FindFirstAtomByType", 1, "", "b", 0)}
      [] t % 3 = 2 -> {NewFrame("ChildDeleteByID", 3, "c4", "", 0),
                       NewFrame("ToGob", 2, "", "", 0),
                       NewFrame("ChildAdd", 3, "", "", 5 + t),
                       [NewFrame("ChildrenSet", 5, "", "", 0) EXCEPT !.list = <<5 + t>>]}
      [] OTHER -> {NewFrame("ChildDeleteByID", 2, "c3", "", 0),
                   NewFrame("FindFirstAtomByType", 2, "", "b", 0)}

Top(t) == stack[t][Len(stack[t])]
Running(t) == stack[t] # <<>> /\ Top(t).pc # "done"
SetTop(t, f) == [stack EXCEPT ![t] = [@ EXCEPT ![Len(@)] = f]]
\* the call enters an atom of the tree it searches or converts
Entered(t, f) ==
    IF f.op \in WalkOps \cup FindOps THEN [visits EXCEPT ![t][f.node] = @ + 1] ELSE visits

\* for _, child := range a.children, if it went over the children twice
RangeOver_twice(n) == nodeKids[n] \o nodeKids[n]
\* for _, child := range a.children
RangeOver(n) == nodeKids[n]

restVars == <<atomVars, maps, arrs, cm, got, cl, gotl, last, panicked, threadVars, input>>

InitLocks ==
    /\ InitAtom
    /\ input = NoInput
    /\ nodeMu = [n \in TreeNodes |-> LockFree]
    /\ nodeKids = InitKids
    /\ stack = [t \in Threads |-> <<>>]
    /\ visits = [t \in Threads |-> [n \in TreeNodes |-> 0]]

\* the thread calls a method or function
LkCall(t) ==
    /\ stack[t] = <<>>
    /\ \E f \in Menu(t) :
          /\ stack' = [stack EXCEPT ![t] = <<f>>]
          /\ visits' = Entered(t, f)
    /\ UNCHANGED <<nodeMu, nodeKids, restVars>>

\* what a method does once it has the read lock: GetID, GetType and
\* ChildrenGet read their result, the others start their loop over a.children
AfterRLock(f) ==
    CASE f.op \in {"GetID", "GetType"} -> [f EXCEPT !.res = <<f.node>>, !.pc = "runlock"]
      [] f.op = "ChildrenGet" -> [f EXCEPT !.res = nodeKids[f.node], !.pc = "runlock"]
      [] OTHER -> [f EXCEPT !.list = RangeOver(f.node),
                            !.res = IF f.op \in WalkOps THEN <<f.node>> ELSE <<>>,
                            !.pc = "loop"]

\* a.mu.RLock()
LkRLock(t) ==
    /\ Running(t) /\ Top(t).pc = "rlock"
    /\ CanRLockNode(nodeMu[Top(t).node])
    /\ nodeMu' = [nodeMu EXCEPT ![Top(t).node] = RLocked(@, t)]
    /\ stack' = SetTop(t, AfterRLock(Top(t)))
    /\ UNCHANGED <<nodeKids, visits, restVars>>

\* the deferred a.mu.RUnlock()
LkRUnlock(t) ==
    /\ Running(t) /\ Top(t).pc = "runlock"
    /\ nodeMu' = [nodeMu EXCEPT ![Top(t).node] = RUnlocked(@, t)]
    /\ stack' = SetTop(t, [Top(t) EXCEPT !.pc = "return"])
    /\ UNCHANGED <<nodeKids, visits, restVars>>

\* a.mu.Lock(): the writer announces itself ...
LkLock(t) ==
    /\ Running(t) /\ Top(t).pc = "lock"
    /\ nodeMu[Top(t).node].w = 0
    /\ nodeMu' = [nodeMu EXCEPT ![Top(t).node].w = t]
    /\ stack' = SetTop(t, [Top(t) EXCEPT !.pc = "drain"])
    /\ UNCHANGED <<nodeKids, visits, restVars>>

\* ... and has the lock when the readers have left; ChildAdd then appends
\* the child, ChildrenSet stores the copy of its list, ChildDeleteByID starts
\* its loop over a.children
LkDrain(t) ==
    /\ Running(t) /\ Top(t).pc = "drain"
    /\ nodeMu[Top(t).node].r = {}
    /\ nodeMu' = [nodeMu EXCEPT ![Top(t).node].held = TRUE]
    /\ IF Top(t).op = "ChildAdd"
       THEN /\ nodeKids' = [nodeKids EXCEPT ![Top(t).node] = Append(@, Top(t).child)]
            /\ stack' = SetTop(t, [Top(t) EXCEPT !.pc = "unlock"])
       ELSE IF Top(t).op = "ChildrenSet"
       THEN /\ nodeKids' = [nodeKids EXCEPT ![Top(t).node] = Top(t).list]
            /\ stack' = SetTop(t, [Top(t) EXCEPT !.pc = "unlock"])
       ELSE /\ nodeKids' = nodeKids
            /\ stack' = SetTop(t, [Top(t) EXCEPT !.list = RangeOver(Top(t).node), !.pc = "loop"])
    /\ UNCHANGED <<visits, restVars>>

\* the deferred a.mu.Unlock()
LkUnlock(t) ==
    /\ Running(t) /\ Top(t).pc = "unlock"
    /\ nodeMu' = [nodeMu EXCEPT ![Top(t).node] = [@ EXCEPT !.w = 0, !.held = FALSE]]
    /\ stack' = SetTop(t, [Top(t) EXCEPT !.pc = "return"])
    /\ UNCHANGED <<nodeKids, visits, restVars>>

\* the call a loop makes for a child: child.ToMap(), child.ToGob(),
\* child.GetID(), or the search of the child's subtree
ChildCall(f, c) ==
    CASE f.op \in WalkOps \cup FindOps -> NewFrame(f.op, c, f.id, f.typ, 0)
      [] OTHER -> NewFrame("GetID", c, "", "", 0)

\* where a method goes after its loop
EndPC(op) ==
    CASE op = "ChildDeleteByID" -> "unlock"
      [] op \in FindOps -> "return"
      [] OTHER -> "runlock"

\* the next step of the body: the call on the root itself, root.ChildrenGet(),
\* the call for the next child, the end of the loop, or the removal of the
\* child ChildDeleteByID has found: append(a.children[:i], a.children[i+1:]...)
\* moves the later children one place down in the same array, and the
\* assignment to a.children then shortens the slice
LkBody(t) ==
    /\ Running(t) /\ Top(t).pc \in {"self", "kids", "loop", "remove", "shorten"}
    /\ LET f == Top(t)
       IN CASE f.pc = "self" ->
                 /\ stack' = [stack EXCEPT ![t] =
                                Append(@, NewFrame(IF f.op = "FindAtomByID" THEN "GetID" ELSE "GetType",
                                                   f.node, "", "", 0))]
                 /\ UNCHANGED <<nodeKids, visits>>
            [] f.pc = "kids" ->
                 /\ stack' = [stack EXCEPT ![t] = Append(@, NewFrame("ChildrenGet", f.node, "", "", 0))]
                 /\ UNCHANGED <<nodeKids, visits>>
            [] f.pc = "loop" /\ f.i <= Len(f.list) ->
                 /\ stack' = [stack EXCEPT ![t] = Append(@, ChildCall(f, f.list[f.i]))]
                 /\ visits' = Entered(t, ChildCall(f, f.list[f.i]))
                 /\ UNCHANGED nodeKids
            [] f.pc = "loop" /\ f.i > Len(f.list) ->
                 /\ stack' = SetTop(t, [f EXCEPT !.pc = EndPC(f.op)])
                 /\ UNCHANGED <<nodeKids, visits>>
            [] f.pc = "remove" ->
                 /\ nodeKids' = [nodeKids EXCEPT ![f.node] =
                                   SubSeq(@, 1, f.i - 1) \o SubSeq(@, f.i + 1, Len(@)) \o <<@[Len(@)]>>]
                 /\ stack' = SetTop(t, [f EXCEPT !.pc = "shorten"])
                 /\ UNCHANGED visits
            [] f.pc = "shorten" ->
                 /\ nodeKids' = [nodeKids EXCEPT ![f.node] = SubSeq(@, 1, Len(@) - 1)]
                 /\ stack' = SetTop(t, [f EXCEPT !.pc = "unlock"])
                 /\ UNCHANGED visits
    /\ UNCHANGED <<nodeMu, restVars>>

\* the caller p goes on with what the call c returned
Resume(p, c) ==
    CASE p.op \in WalkOps -> [p EXCEPT !.res = @ \o c.res, !.i = @ + 1]
      [] p.op = "ChildDeleteByID" ->
            IF NodeID(c.res[1]) = p.id THEN [p EXCEPT !.pc = "remove"] ELSE [p EXCEPT !.i = @ + 1]
      [] p.op = "ChildFindByID" ->
            IF NodeID(c.res[1]) = p.id THEN [p EXCEPT !.res = <<c.node>>, !.pc = "runlock"]
            ELSE [p EXCEPT !.i = @ + 1]
      [] p.op \in FindOps /\ p.pc = "self" ->
            IF (IF p.op = "FindAtomByID" THEN NodeID(c.res[1]) = p.id ELSE NodeType(c.res[1]) = p.typ)
            THEN [p EXCEPT !.res = <<p.node>>,
                           !.pc = IF p.op = "FindAtomsByType" THEN "kids" ELSE "return"]
            ELSE [p EXCEPT !.pc = "kids"]
      [] p.op \in FindOps /\ p.pc = "kids" -> [p EXCEPT !.list = c.res, !.i = 1, !.pc = "loop"]
      [] p.op \in FindOps /\ p.pc = "loop" ->
            IF p.op = "FindAtomsByType" THEN [p EXCEPT !.res = @ \o c.res, !.i = @ + 1]
            ELSE IF c.res # <<>> THEN [p EXCEPT !.res = c.res, !.pc = "return"]
            ELSE [p EXCEPT !.i = @ + 1]

\* a call made inside another call returns
LkReturn(t) ==
    /\ Running(t) /\ Top(t).pc = "return" /\ Len(stack[t]) > 1
    /\ stack' = [stack EXCEPT ![t] =
                    Append(SubSeq(@, 1, Len(@) - 2), Resume(@[Len(@) - 1], @[Len(@)]))]
    /\ UNCHANGED <<nodeMu, nodeKids, visits, restVars>>

\* the call the thread made returns
LkFinish(t) ==
    /\ Running(t) /\ Top(t).pc = "return" /\ Len(stack[t]) = 1
    /\ stack' = SetTop(t, [Top(t) EXCEPT !.pc = "done"])
    /\ UNCHANGED <<nodeMu, nodeKids, visits, restVars>>

LkStep(t) ==
    \/ LkCall(t)
    \/ LkRLock(t)
    \/ LkRUnlock(t)
    \/ LkLock(t)
    \/ LkDrain(t)
    \/ LkUnlock(t)
    \/ LkBody(t)
    \/ LkReturn(t)
    \/ LkFinish(t)

NextLocks == \E t \in Threads : LkStep(t)

\* the scheduler runs every thread that can take a step
SpecLocks == InitLocks /\ [][NextLocks]_vars /\ \A t \in Threads : WF_vars(LkStep(t))

\* the atoms whose lock the thread holds
HeldBy(t) == {n \in TreeNodes : t \in nodeMu[n].r \/ (nodeMu[n].w = t /\ nodeMu[n].held)}

\* C27: a thread never holds the locks of two different atoms at the same time.
C27_OneLockAtATime == \A t \in Threads : Cardinality(HeldBy(t)) <= 1

\* every thread has made its call and the call has returned
LocksAllDone == \A t \in Threads : stack[t] # <<>> /\ Top(t).pc = "done"

\* C28: whatever the threads call on the atoms of an acyclic structure, in
\* which an atom may be the child of two parents, every call returns: no
\* thread waits for a lock for ever.
C28_DeadlockFree == <>LocksAllDone

\* a writer waits for atom 3 while a reader that holds the locks of atoms 1
\* and 3 is inside the call to atom 4
C28_Witness ==
    /\ Running(1) /\ Running(2)
    /\ stack[1][1].op = "ToMap" /\ HeldBy(1) = {1, 3}
    /\ Top(2).op = "ChildDeleteByID" /\ Top(2).pc = "drain" /\ nodeMu[3].w = 2

\* C29: FindAtomByID, FindFirstAtomByType, FindAtomsByType, ToMap and ToGob
\* return on every finite tree, having entered no atom of it more than once.
C29_TerminatesBoundedVisits ==
    /\ <>LocksAllDone
    /\ [](\A t \in Threads : \A n \in TreeNodes : visits[t][n] <= 1)

\* FindAtomsByType has returned the atoms of type a below atom 1 after
\* entering each of the four atoms once, and ToGob has converted atoms 2 to 5
C29_Witness ==
    /\ LocksAllDone
    /\ Top(1).op = "FindAtomsByType" /\ Top(1).res = <<1, 4>>
    /\ \A n \in {1, 3, 4, 5} : visits[1][n] = 1
    /\ Top(2).op = "ToGob" /\ Top(2).res = <<2, 3, 4, 5>>

(***************************************************************************)
(* The JSON text of an empty list                                          *)
(***************************************************************************)
\* C30: AtomsToJSON of an empty list and of a nil list both return the text
\* [] and no error.
C30_EmptyListJSON ==
    (last.op = "AtomsToJSON" /\ (input.atoms.isNil \/ input.atoms.list = <<>>))
    => /\ ~last.ret.err
       /\ last.ret.text = JArray(<<>>)

\* AtomsToJSON(nil) has returned []
C30_Witness ==
    /\ last.op = "AtomsToJSON"
    /\ input.atoms.isNil
    /\ last.ret = [err |-> FALSE, text |-> JArray(<<>>)]

(***************************************************************************)
(* What NewAtom returns                                                    *)
(***************************************************************************)
\* the options that set the id, and those that set the type
SetsID(opt) == opt.o = "WithID" \/ (opt.o = "WithData" /\ "id" \in DOMAIN opt.m)
SetsType(opt) == opt.o = "WithType" \/ (opt.o = "WithData" /\ "type" \in DOMAIN opt.m)
Supplied(opt, key) == IF opt.o = "WithData" THEN opt.m[key] ELSE opt.s
\* the last of the options that satisfies the test, 0 when none does
LastSetter(opts, Test(_)) ==
    LET S == {n \in 1..Len(opts) : Test(opts[n])}
    IN IF S = {} THEN 0 ELSE CHOOSE n \in S : \A k \in S : k <= n

\* C31: NewAtom returns an atom whose id is never empty: the id the last
\* WithID or WithData option supplied when that id is not empty, a generated
\* id otherwise; its type is the type argument unless a WithType or WithData
\* option replaced it; without options it has no properties and no children.
C31_NewAtom ==
    (last.op = "NewAtomWith")
    => LET a == last.ret
           opts == input.opts
           ni == LastSetter(opts, SetsID)
           nt == LastSetter(opts, SetsType)
       IN /\ a.id # ""
          /\ a.id = IF ni # 0 /\ Supplied(opts[ni], "id") # ""
                    THEN Supplied(opts[ni], "id") ELSE GeneratedID
          /\ a.type = IF nt # 0 THEN Supplied(opts[nt], "type") ELSE input.typ
          /\ (opts = <<>>) => (a.props = EmptyMap /\ a.kids = <<>>)

\* NewAtom("a", WithData({id: "", k1: v1})) has returned an atom with a
\* generated id
C31_Witness ==
    /\ last.op = "NewAtomWith"
    /\ input.opts = <<WithData("id" :> "" @@ "k1" :> "v1")>>
    /\ last.ret = AtomVal(GeneratedID, input.typ, "k1" :> "v1", <<>>)

(***************************************************************************)
(* The memory estimate                                                     *)
(***************************************************************************)
\* C32: MemoryUsage returns a positive estimate that does not decrease when a
\* property or a child is added to the atom and that grows when data is
\* added to a descendant of the atom.
C32_MemoryUsageCoversTree ==
    (last.op = "MemoryUsage")
    => /\ last.ret.before > 0
       /\ (last.arg[1] \in {"Set", "ChildAdd"}) => (last.ret.after >= last.ret.before)
       /\ (last.arg[1] = "SetOfChild") => (last.ret.after > last.ret.before)

(***************************************************************************)
(* Threads that set, read and remove the same key                          *)
(***************************************************************************)
\* C33: when the threads each call Set(k, v), Get(k), Remove(k) on the same
\* key of one atom while they also add children, then once all threads have
\* returned Has(k) is false and Get(k) is the empty string, however the
\* threads were interleaved.
C33_KeyGoneAfterAll ==
    /\ <>AllDone
    /\ [](AllDone => (~Has("k1") /\ Get("k1") = ""))

\* all threads have returned, every child was added, and the Get of thread 1
\* ran after another thread had removed the key thread 1 had set
C33_Witness ==
    /\ AllDone
    /\ input.kind = "SetGetRemove"
    /\ ~Has("k1")
    /\ ChildrenLength = NThreads
    /\ tres[1].val = ""

(***************************************************************************)
(* Threads that add, replace and read the children of one parent           *)
(***************************************************************************)
\* the threads that call ChildrenSet, and the children passed to ChildAdd
Setters == {t \in Threads : t % 2 = 0}
AddedByThreads == {ChildOf(t) : t \in Threads \ Setters} \cup {SecondChildOf(t) : t \in Threads \ Setters}

\* C34: when threads call ChildAdd with distinct children, ChildrenSet with
\* fresh lists of distinct children and ChildrenGet on one parent, then once
\* all have returned the children list is not empty and holds no child twice:
\* it is the whole list of one ChildrenSet followed by children passed to
\* ChildAdd, each at most once.
C34_ChildOpsAtomic ==
    /\ <>AllDone
    /\ [](AllDone =>
            LET list == ChildrenGetContent
            IN /\ list # <<>>
               /\ \A i, j \in 1..Len(list) : (i # j) => (list[i] # list[j])
               /\ \E u \in Setters :
                     /\ Len(list) >= 2 /\ SubSeq(list, 1, 2) = SetListOf(u)
                     /\ \A i \in 3..Len(list) : list[i] \in AddedByThreads)

\* all threads have returned and the list is that of ChildrenSet followed by
\* the second child of thread 1: the list was replaced between the two ChildAdd
C34_Witness ==
    /\ AllDone
    /\ input.kind = "ChildOps"
    /\ ChildrenGetContent = SetListOf(2) \o <<SecondChildOf(1)>>
    /\ tres[1].list = <<ChildOf(1)>>

(***************************************************************************)
(* The children of the map handed to MapToAtom                             *)
(***************************************************************************)
\* the entries of a children value that is a list
ChildEntries(c) ==
    CASE c.t = "[]any" -> c.v
      [] c.t = "[]map[string]any" -> [n \in 1..Len(c.v) |-> AnyMap(c.v[n])]
      [] OTHER -> <<>>
\* the children value is a list of maps that all pass validation
ListOfValidMaps(c) ==
    /\ c.t \in {"[]any", "[]map[string]any"}
    /\ \A n \in 1..Len(ChildEntries(c)) : PassesValidation(ChildEntries(c)[n])

\* C35: MapToAtom fails, returning no atom, whenever children is present but
\* is not a list of maps and whenever a child map at any depth is invalid;
\* when it succeeds the atom has one child for every entry of children.
C35_ChildrenValidated ==
    (last.op = "MapToAtom" /\ input.arg.t = "map[string]any" /\ "children" \in DOMAIN input.arg.v)
    => /\ ~ListOfValidMaps(input.arg.v["children"]) => (last.ret.err /\ last.ret.atom = NoAtom)
       /\ ~last.ret.err => Len(last.ret.atom.kids) = Len(ChildEntries(input.arg.v["children"]))

(***************************************************************************)
(* Searches of a tree that other threads change                            *)
(***************************************************************************)
\* the links from a parent to a child that a call of some thread may add or
\* remove: the child ChildDeleteByID removes, the child ChildAdd adds, and
\* every link of an atom whose children ChildrenSet replaces
Touched ==
    UNION {UNION {CASE f.op = "ChildDeleteByID" -> {<<f.node, c>> : c \in {x \in TreeNodes : NodeID(x) = f.id}}
                    [] f.op = "ChildAdd" -> {<<f.node, f.child>>}
                    [] f.op = "ChildrenSet" -> {<<f.node, c>> : c \in TreeNodes}
                    [] OTHER -> {} : f \in Menu(t)} : t \in Threads}

RECURSIVE StableFrom(_)
\* the atoms below n (n included) whose chain of links from n no call changes
StableFrom(n) ==
    {n} \cup UNION {StableFrom(InitKids[n][k]) :
                      k \in {x \in 1..Len(InitKids[n]) : <<n, InitKids[n][x]>> \notin Touched}}

\* the atom is what the search looks for
Wanted(f, n) == IF f.op = "FindAtomByID" THEN NodeID(n) = f.id ELSE NodeType(n) = f.typ

\* C36: a search that runs while other threads add, delete and replace
\* children returns no nil entry, only atoms it has entered (the root or an
\* entry of the children snapshot of an atom it entered), each matching and
\* none twice, and it returns every matching atom whose chain of links from
\* the root no thread changes.
C36_SearchConsistent ==
    \A t \in Threads :
        (stack[t] # <<>> /\ Top(t).pc = "done" /\ Top(t).op \in {"FindAtomsByType", "FindAtomByID"})
        => LET f == Top(t)
           IN /\ \A k \in 1..Len(f.res) :
                    /\ f.res[k] \in TreeNodes
                    /\ visits[t][f.res[k]] >= 1
                    /\ Wanted(f, f.res[k])
              /\ \A j, k \in 1..Len(f.res) : (j # k) => (f.res[j] # f.res[k])
              /\ \A n \in StableFrom(f.node) :
                    Wanted(f, n) => \E k \in 1..Len(f.res) : f.res[k] = n

\* the search of thread 1 is in its loop over the snapshot of the children of
\* atom 3 taken before thread 2 deleted atom 4 from them
C36_Witness ==
    /\ stack[1] # <<>> /\ stack[1][1].op = "FindAtomsByType" /\ stack[1][1].typ = "b"
    /\ \E k \in 1..Len(stack[1]) :
          /\ stack[1][k].op = "FindAtomsByType" /\ stack[1][k].node = 3
          /\ stack[1][k].pc = "loop" /\ stack[1][k].list = <<4, 5>>
    /\ stack[2] # <<>> /\ Top(2).op = "ChildDeleteByID" /\ Top(2).pc = "done"
    /\ nodeKids[3] = <<5>>

(***************************************************************************)
(* FromGob applied to what ToGob returns                                   *)
(***************************************************************************)
\* C37: for every atom, also one with nil entries among its children,
\* FromGob on a fresh atom applied to the data ToGob returns succeeds and
\* gives the fresh atom the id, the type and the properties of the atom and
\* one child for each of its children.
C37_FromGobOfToGob ==
    (last.op = "FromGobRoundTrip")
    => /\ ~last.ret.err
       /\ last.ret.atom.id = input.atom.id
       /\ last.ret.atom.type = input.atom.type
       /\ last.ret.atom.props = input.atom.props
       /\ Len(last.ret.atom.kids) = Len(input.atom.kids)

(***************************************************************************)
(* JSONToAtom and JSONToAtoms on one object                                *)
(***************************************************************************)
\* the text holds a single JSON object
SingleObject(doc) == doc.t = "object" \/ (doc.t = "padded" /\ doc.v.t = "object")

\* C38: for a text that holds a single JSON object JSONToAtom and JSONToAtoms
\* agree: both return an error, or JSONToAtoms returns the list of the one
\* atom JSONToAtom returns, with the same id, type, properties and children
\* (a generated id is a new one at every call, so two calls do not agree on it).
C38_OneAndManyAgree ==
    (last.op = "JSONToAtomBoth" /\ SingleObject(input.doc))
    => \/ last.ret.one.err /\ last.ret.many.err
       \/ /\ ~last.ret.one.err /\ ~last.ret.many.err
          /\ last.ret.many.atoms = <<last.ret.one.atom>>
          /\ last.ret.one.atom.id # GeneratedID

(***************************************************************************)
(* What each operation leaves alone                                        *)
(***************************************************************************)
\* the properties and the children of the atom as the read operations show them
PropsNow == IF properties = NilMap THEN EmptyMap ELSE maps[properties]
KidsNow == SliceElems(arrs, children)
PropertyMutators == {"Set", "Remove", "SetAll"}
ChildMutators == {"ChildAdd", "ChildrenAdd", "ChildrenSet", "ChildDeleteByID"}
Readers == {"Get", "Has", "GetAll", "ChildrenGet", "ChildrenLength", "ChildFindByID",
            "ChildrenFindByType", "ToMap", "ToGob", "FindAtomByID", "FindFirstAtomByType",
            "FindAtomsByType"}

\* C39: Set, Remove and SetAll, also for the keys id and type, leave the id,
\* the type and the children as they are; ChildAdd, ChildrenAdd, ChildrenSet
\* and ChildDeleteByID leave the id, the type and the properties; SetID
\* changes only the id and SetType only the type; the read operations change
\* nothing.
C39_FrameEffects ==
    [][/\ (last'.op \in PropertyMutators)
            => (id' = id /\ atomType' = atomType /\ KidsNow' = KidsNow)
       /\ (last'.op \in ChildMutators)
            => (id' = id /\ atomType' = atomType /\ PropsNow' = PropsNow)
       /\ (last'.op = "SetID") => (atomType' = atomType /\ PropsNow' = PropsNow /\ KidsNow' = KidsNow)
       /\ (last'.op = "SetType") => (id' = id /\ PropsNow' = PropsNow /\ KidsNow' = KidsNow)
       /\ (last'.op \in Readers)
            => (id' = id /\ atomType' = atomType /\ PropsNow' = PropsNow /\ KidsNow' = KidsNow)]_vars

\* Set("id", v) has been called on an atom whose id was set with SetID: the
\* property id holds v and GetID still returns the other id
C39_Witness ==
    /\ last.op = "Set" /\ last.arg[1] = "id"
    /\ Has("id") /\ Get("id") = "v1"
    /\ id = "other"
    /\ ChildrenLength = 1

====
